---- MODULE Spec2Model ----
(***************************************************************************)
(* The WorkLog attendance system: the approval workflow of leave, overtime  *)
(* and late-consideration requests with the leave-credit balance they draw *)
(* on, the submit paths of the employee dashboard, and the per-day         *)
(* attendance record with its guards and computations.  Every store round  *)
(* trip (a read or a write, either can fail) is one atomic step; a call    *)
(* that makes several round trips is a sequence of steps of the session    *)
(* that runs it, so that two sessions interleave.  Shift administration,   *)
(* the shift resolver, delete_employee and the notification calls follow;  *)
(* the resolver and delete_employee are one step each, with one success    *)
(* flag per statement they run.  The notification round of a dashboard,    *)
(* the deletion of a shift and the night across midnight are sequences of  *)
(* steps of their own specifications.                                      *)
(***************************************************************************)
EXTENDS Integers, Sequences, FiniteSets, TLC

\* ---------------------------------------------------------------- bounds
NumEmployees == 1
NumReviewers == 2
MaxLeave == 1
MaxOvertime == 1
MaxLate == 1
MaxDays == 2
MaxCredits == 2
MaxClock == 2
MaxDebits == 2
MaxSubmitted == 2
NumSessions == 2
MaxDay == 2
MaxShifts == 2
MaxNotify == 2

Employees == 1..NumEmployees
Reviewers == 1..NumReviewers
Remarks == {"NULL", "noted"}
\* employee dashboard windows open at the same time
Sessions == 1..NumSessions
\* calendar dates a request can name, as day numbers
Dates == 1..MaxDays
FirstDate == CHOOSE d \in Dates : \A x \in Dates : d <= x
FirstReviewer == CHOOSE r \in Reviewers : \A x \in Reviewers : r <= x
FirstSession == CHOOSE s \in Sessions : \A x \in Sessions : s <= x

\* SQL NULL in the integer columns reviewed_by and reviewed_at
NULL == 0

VARIABLES
    leave_credits,        \* employees.leave_credits, by employee id
    leave_requests,       \* table leave_requests, row id = position
    overtime_requests,    \* table overtime_requests
    late_considerations,  \* table late_considerations
    clock,                \* the store's NOW() / the caller's datetime.now()
    pc,                   \* per reviewer session: position inside approve_leave
    loc,                  \* per reviewer session: locals of approve_leave
    ret,                  \* (success, message) returned by the last completed call
    debited,              \* per leave id: number of Q_DEDUCT_CREDITS writes applied for it
    epc,                  \* per employee session: position inside the running handler
    eloc,                 \* per employee session: locals of the running handler
    attendance,           \* table attendance, row id = position
    shifts,               \* table shifts, row id = position
    shift_id,             \* employees.shift_id, by employee id
    today,                \* date.today(), a day number
    now_time,             \* datetime.now().time(), seconds since midnight
    args,                 \* arguments of the computation under evaluation
    out                   \* its result

reqVars == <<leave_credits, leave_requests, overtime_requests, late_considerations,
             clock, pc, loc, ret, debited>>
sesVars == <<epc, eloc>>
attVars == <<attendance, shifts, shift_id, today, now_time>>
fnVars == <<args, out>>

vars == <<leave_credits, leave_requests, overtime_requests, late_considerations,
          clock, pc, loc, ret, debited, epc, eloc, attendance, shifts, shift_id,
          today, now_time, args, out>>

\* ---------------------------------------------------------------- rows
\* INSERT ... VALUES (..., 'Pending'): reviewer columns start NULL,
\* employee_notified starts 0
LeaveRow(e, start_date, end_date, d) ==
    [employee_id |-> e, start_date |-> start_date, end_date |-> end_date,
     days_count |-> d, status |-> "Pending",
     reviewed_by |-> NULL, reviewed_at |-> NULL, remarks |-> "NULL",
     employee_notified |-> FALSE]

\* overtime_requests.request_date / late_considerations.attendance_date is date
RequestRow(e, date) ==
    [employee_id |-> e, date |-> date, status |-> "Pending",
     reviewed_by |-> NULL, reviewed_at |-> NULL, remarks |-> "NULL",
     employee_notified |-> FALSE]

NoLocals == [leave_id |-> 0, remarks |-> "NULL",
             employee_id |-> 0, days_count |-> 0]

\* what a call hands back: LeaveController returns (ok, message); the
\* dashboard controllers and the overtime / late-consideration calls return
\* the bare result of execute_query
NoReturn == [ok |-> FALSE, msg |-> "none"]

\* SQL NULL / Python None in a TIME column: midnight is the time 0
None == 0 - 1

\* what fetch_one gives when no row matches or the read failed
NoRecord == [employee_id |-> NULL]

NoParams == [time_out |-> None]

NoSessionLocals == [date |-> 0, params |-> NoParams]

NoArgs == [fn |-> "none"]

Return(ok, msg) == [ok |-> ok, msg |-> msg]

\* status of row id as the store holds it; "none" when the id matches no row
StatusOf(table, id) ==
    IF id \in DOMAIN table THEN table[id].status ELSE "none"

Init ==
    /\ leave_credits \in [Employees -> 0..MaxCredits]
    /\ leave_requests = <<>>
    /\ overtime_requests = <<>>
    /\ late_considerations = <<>>
    /\ clock = 1
    /\ pc = [r \in Reviewers |-> "idle"]
    /\ loc = [r \in Reviewers |-> NoLocals]
    /\ ret = NoReturn
    /\ debited = [l \in 1..MaxSubmitted |-> 0]
    /\ epc = [s \in Sessions |-> "idle"]
    /\ eloc = [s \in Sessions |-> NoSessionLocals]
    /\ attendance = <<>>
    /\ shifts = <<>>
    /\ shift_id = [e \in Employees |-> NULL]
    /\ today = 1
    /\ now_time = 0
    /\ args = NoArgs
    /\ out = NoArgs

\* ---------------------------------------------------------------- SQL
\* LeaveModel.Q_APPROVE: UPDATE leave_requests SET status = 'Approved',
\* reviewed_by, reviewed_at = NOW(), remarks WHERE id = %s
LeaveModel_Q_APPROVE(table, reviewer, remarks, id, now) ==
    [i \in DOMAIN table |->
        IF i = id
        THEN [table[i] EXCEPT !.status = "Approved", !.reviewed_by = reviewer,
                              !.reviewed_at = now, !.remarks = remarks]
        ELSE table[i]]

\* LeaveModel.Q_REJECT: ... SET status = 'Rejected', ... WHERE id = %s
LeaveModel_Q_REJECT(table, reviewer, remarks, id, now) ==
    [i \in DOMAIN table |->
        IF i = id
        THEN [table[i] EXCEPT !.status = "Rejected", !.reviewed_by = reviewer,
                              !.reviewed_at = now, !.remarks = remarks]
        ELSE table[i]]

\* OvertimeModel.Q_APPROVE: ... WHERE id = %s AND status = 'Pending'
OvertimeModel_Q_APPROVE(table, reviewer, now, remarks, id) ==
    [i \in DOMAIN table |->
        IF i = id /\ table[i].status = "Pending"
        THEN [table[i] EXCEPT !.status = "Approved", !.reviewed_by = reviewer,
                              !.reviewed_at = now, !.remarks = remarks]
        ELSE table[i]]

\* OvertimeModel.Q_REJECT: ... WHERE id = %s AND status = 'Pending'
OvertimeModel_Q_REJECT(table, reviewer, now, remarks, id) ==
    [i \in DOMAIN table |->
        IF i = id /\ table[i].status = "Pending"
        THEN [table[i] EXCEPT !.status = "Rejected", !.reviewed_by = reviewer,
                              !.reviewed_at = now, !.remarks = remarks]
        ELSE table[i]]

\* LateConsiderationModel.Q_APPROVE: ... WHERE id = %s AND status = 'Pending'
LateConsiderationModel_Q_APPROVE(table, reviewer, now, remarks, id) ==
    [i \in DOMAIN table |->
        IF i = id /\ table[i].status = "Pending"
        THEN [table[i] EXCEPT !.status = "Approved", !.reviewed_by = reviewer,
                              !.reviewed_at = now, !.remarks = remarks]
        ELSE table[i]]

\* LateConsiderationModel.Q_REJECT: ... WHERE id = %s AND status = 'Pending'
LateConsiderationModel_Q_REJECT(table, reviewer, now, remarks, id) ==
    [i \in DOMAIN table |->
        IF i = id /\ table[i].status = "Pending"
        THEN [table[i] EXCEPT !.status = "Rejected", !.reviewed_by = reviewer,
                              !.reviewed_at = now, !.remarks = remarks]
        ELSE table[i]]

\* LeaveModel.Q_DEDUCT_CREDITS: UPDATE employees
\* SET leave_credits = leave_credits - %s WHERE id = %s
Q_DEDUCT_CREDITS(credits, days, e) ==
    [x \in DOMAIN credits |-> IF x = e THEN credits[x] - days ELSE credits[x]]

\* EmployeeModel.Q_UPDATE_LEAVE_CREDITS: SET leave_credits = %s WHERE id = %s
Q_UPDATE_LEAVE_CREDITS(credits, n, e) ==
    [x \in DOMAIN credits |-> IF x = e THEN n ELSE credits[x]]

\* the credit test with the comparison one day too lenient
InsufficientCredits_lenient(credits, required) == credits + 1 < required

\* the credit test of approve_leave: credits < required
InsufficientCredits(credits, required) == credits < required

\* ---------------------------------------------------------------- submit
\* create_leave_request: one INSERT, status 'Pending'
\* days_count = (end_date - start_date).days + 1
create_leave_request(e, start_date, end_date) ==
    /\ Len(leave_requests) < MaxSubmitted
    /\ \E dbok \in BOOLEAN :
          leave_requests' = IF dbok
                            THEN Append(leave_requests,
                                        LeaveRow(e, start_date, end_date,
                                                 (end_date - start_date) + 1))
                            ELSE leave_requests
    /\ UNCHANGED <<leave_credits, overtime_requests, late_considerations,
                   clock, pc, loc, ret, debited>>
    /\ UNCHANGED <<sesVars, attVars, fnVars>>

\* LeaveController.create_leave_request: the caller hands in days_count,
\* which goes into the INSERT as it is
LeaveController_create_leave_request(e, start_date, end_date, days_count) ==
    /\ Len(leave_requests) < MaxSubmitted
    /\ \E dbok \in BOOLEAN :
          leave_requests' = IF dbok
                            THEN Append(leave_requests,
                                        LeaveRow(e, start_date, end_date, days_count))
                            ELSE leave_requests
    /\ UNCHANGED <<leave_credits, overtime_requests, late_considerations,
                   clock, pc, loc, ret, debited>>
    /\ UNCHANGED <<sesVars, attVars, fnVars>>

create_overtime_request(e, request_date) ==
    /\ Len(overtime_requests) < MaxSubmitted
    /\ \E dbok \in BOOLEAN :
          overtime_requests' = IF dbok
                               THEN Append(overtime_requests, RequestRow(e, request_date))
                                       ELSE overtime_requests
    /\ UNCHANGED <<leave_credits, leave_requests, late_considerations,
                   clock, pc, loc, ret, debited>>
    /\ UNCHANGED <<sesVars, attVars, fnVars>>

create_late_consideration(e, attendance_date) ==
    /\ Len(late_considerations) < MaxSubmitted
    /\ \E dbok \in BOOLEAN :
          late_considerations' = IF dbok
                                 THEN Append(late_considerations,
                                             RequestRow(e, attendance_date))
                                         ELSE late_considerations
    /\ UNCHANGED <<leave_credits, leave_requests, overtime_requests,
                   clock, pc, loc, ret, debited>>
    /\ UNCHANGED <<sesVars, attVars, fnVars>>

\* ---------------------------------------------------------------- approve_leave
\* LeaveController.approve_leave; AdminDashboardController.approve_leave and
\* StaffDashboardController.approve_leave make the same four round trips in
\* the same order and return the bare boolean.
\* line 53-55: leave = fetch_one(Q_SELECT_BY_ID); if not leave: return False
approve_leave_fetch_leave(r, id, remarks) ==
    /\ pc[r] = "idle"
    /\ debited[id] < MaxDebits
    /\ \E dbok \in BOOLEAN :
          IF dbok /\ id \in DOMAIN leave_requests
          THEN /\ pc' = [pc EXCEPT ![r] = "fetch_emp"]
               /\ loc' = [loc EXCEPT ![r] =
                             [leave_id |-> id, remarks |-> remarks,
                              employee_id |-> leave_requests[id].employee_id,
                              days_count |-> leave_requests[id].days_count]]
               /\ ret' = ret
          ELSE /\ ret' = Return(FALSE, "Leave request not found.")
               /\ UNCHANGED <<pc, loc>>
    /\ UNCHANGED <<leave_credits, leave_requests, overtime_requests,
                   late_considerations, clock, debited>>
    /\ UNCHANGED <<sesVars, attVars, fnVars>>

\* line 57-68: emp = fetch_one(Q_SELECT_EMPLOYEE_CREDITS); the credit test
approve_leave_fetch_emp(r) ==
    /\ pc[r] = "fetch_emp"
    /\ \E dbok \in BOOLEAN :
          IF ~dbok
          THEN /\ ret' = Return(FALSE, "Employee not found.")
               /\ pc' = [pc EXCEPT ![r] = "idle"]
               /\ loc' = [loc EXCEPT ![r] = NoLocals]
          ELSE IF InsufficientCredits(leave_credits[loc[r].employee_id], loc[r].days_count)
          THEN /\ ret' = Return(FALSE, "Insufficient leave credits.")
               /\ pc' = [pc EXCEPT ![r] = "idle"]
               /\ loc' = [loc EXCEPT ![r] = NoLocals]
          ELSE /\ pc' = [pc EXCEPT ![r] = "approve"]
               /\ UNCHANGED <<loc, ret>>
    /\ UNCHANGED <<leave_credits, leave_requests, overtime_requests,
                   late_considerations, clock, debited>>
    /\ UNCHANGED <<sesVars, attVars, fnVars>>

\* line 70-73: execute_query(Q_APPROVE); a failed write returns False
approve_leave_write(r) ==
    /\ pc[r] = "approve"
    /\ \E dbok \in BOOLEAN :
          IF dbok
          THEN /\ leave_requests' = LeaveModel_Q_APPROVE(leave_requests, r,
                                         loc[r].remarks, loc[r].leave_id, clock)
               /\ pc' = [pc EXCEPT ![r] = "deduct"]
               /\ UNCHANGED <<loc, ret>>
          ELSE /\ ret' = Return(FALSE, "Failed to approve leave request.")
               /\ pc' = [pc EXCEPT ![r] = "idle"]
               /\ loc' = [loc EXCEPT ![r] = NoLocals]
               /\ UNCHANGED leave_requests
    /\ UNCHANGED <<leave_credits, overtime_requests, late_considerations, clock, debited>>
    /\ UNCHANGED <<sesVars, attVars, fnVars>>

\* line 75-79: execute_query(Q_DEDUCT_CREDITS), result not looked at; return True
approve_leave_deduct(r) ==
    /\ pc[r] = "deduct"
    /\ \E dbok \in BOOLEAN :
          /\ leave_credits' = IF dbok
                              THEN Q_DEDUCT_CREDITS(leave_credits, loc[r].days_count,
                                                    loc[r].employee_id)
                              ELSE leave_credits
          /\ debited' = IF dbok
                        THEN [debited EXCEPT ![loc[r].leave_id] = @ + 1]
                        ELSE debited
    /\ ret' = Return(TRUE, "Leave request approved successfully.")
    /\ pc' = [pc EXCEPT ![r] = "idle"]
    /\ loc' = [loc EXCEPT ![r] = NoLocals]
    /\ UNCHANGED <<leave_requests, overtime_requests, late_considerations, clock>>
    /\ UNCHANGED <<sesVars, attVars, fnVars>>

\* ---------------------------------------------------------------- single-write calls
\* a reject that hands the requested days back to the balance
reject_leave_refund(r, id, remarks) ==
    /\ pc[r] = "idle"
    /\ \E dbok \in BOOLEAN :
          /\ leave_requests' = IF dbok
                               THEN LeaveModel_Q_REJECT(leave_requests, r, remarks, id, clock)
                               ELSE leave_requests
          /\ leave_credits' = IF dbok /\ id \in DOMAIN leave_requests
                              THEN [leave_credits EXCEPT
                                       ![leave_requests[id].employee_id] =
                                           @ + leave_requests[id].days_count]
                              ELSE leave_credits
          /\ ret' = IF dbok THEN Return(TRUE, "Leave request rejected.")
                            ELSE Return(FALSE, "Failed to reject leave request.")
    /\ UNCHANGED <<overtime_requests, late_considerations, clock, pc, loc, debited>>
    /\ UNCHANGED <<sesVars, attVars, fnVars>>

\* reject_leave: execute_query(Q_REJECT), its result is the outcome
reject_leave(r, id, remarks) ==
    /\ pc[r] = "idle"
    /\ \E dbok \in BOOLEAN :
          /\ leave_requests' = IF dbok
                               THEN LeaveModel_Q_REJECT(leave_requests, r, remarks, id, clock)
                               ELSE leave_requests
          /\ ret' = IF dbok THEN Return(TRUE, "Leave request rejected.")
                            ELSE Return(FALSE, "Failed to reject leave request.")
    /\ UNCHANGED <<leave_credits, overtime_requests, late_considerations,
                   clock, pc, loc, debited>>
    /\ UNCHANGED <<sesVars, attVars, fnVars>>

approve_overtime(r, id, remarks) ==
    /\ pc[r] = "idle"
    /\ \E dbok \in BOOLEAN :
          /\ overtime_requests' = IF dbok
                                  THEN OvertimeModel_Q_APPROVE(overtime_requests, r, clock,
                                                               remarks, id)
                                  ELSE overtime_requests
          /\ ret' = Return(dbok, "bool")
    /\ UNCHANGED <<leave_credits, leave_requests, late_considerations,
                   clock, pc, loc, debited>>
    /\ UNCHANGED <<sesVars, attVars, fnVars>>

reject_overtime(r, id, remarks) ==
    /\ pc[r] = "idle"
    /\ \E dbok \in BOOLEAN :
          /\ overtime_requests' = IF dbok
                                  THEN OvertimeModel_Q_REJECT(overtime_requests, r, clock,
                                                              remarks, id)
                                  ELSE overtime_requests
          /\ ret' = Return(dbok, "bool")
    /\ UNCHANGED <<leave_credits, leave_requests, late_considerations,
                   clock, pc, loc, debited>>
    /\ UNCHANGED <<sesVars, attVars, fnVars>>

approve_late_consideration(r, id, remarks) ==
    /\ pc[r] = "idle"
    /\ \E dbok \in BOOLEAN :
          /\ late_considerations' = IF dbok
                                    THEN LateConsiderationModel_Q_APPROVE(
                                             late_considerations, r, clock, remarks, id)
                                    ELSE late_considerations
          /\ ret' = Return(dbok, "bool")
    /\ UNCHANGED <<leave_credits, leave_requests, overtime_requests,
                   clock, pc, loc, debited>>
    /\ UNCHANGED <<sesVars, attVars, fnVars>>

reject_late_consideration(r, id, remarks) ==
    /\ pc[r] = "idle"
    /\ \E dbok \in BOOLEAN :
          /\ late_considerations' = IF dbok
                                    THEN LateConsiderationModel_Q_REJECT(
                                             late_considerations, r, clock, remarks, id)
                                    ELSE late_considerations
          /\ ret' = Return(dbok, "bool")
    /\ UNCHANGED <<leave_credits, leave_requests, overtime_requests,
                   clock, pc, loc, debited>>
    /\ UNCHANGED <<sesVars, attVars, fnVars>>

\* EmployeeController.update_leave_credits: negative input refused, else one UPDATE
update_leave_credits(e, n) ==
    /\ \E dbok \in BOOLEAN :
          leave_credits' = IF n >= 0 /\ dbok
                           THEN Q_UPDATE_LEAVE_CREDITS(leave_credits, n, e)
                           ELSE leave_credits
    /\ UNCHANGED <<leave_requests, overtime_requests, late_considerations,
                   clock, pc, loc, ret, debited>>
    /\ UNCHANGED <<sesVars, attVars, fnVars>>

Tick ==
    /\ clock < MaxClock
    /\ clock' = clock + 1
    /\ UNCHANGED <<leave_credits, leave_requests, overtime_requests,
                   late_considerations, pc, loc, ret, debited>>
    /\ UNCHANGED <<sesVars, attVars, fnVars>>

\* ---------------------------------------------------------------- employee dashboard: submit
\* the employee a dashboard session belongs to (self.employee_id)
employee_id(s) == 1 + (s % NumEmployees)

\* OvertimeModel.Q_HAS_PENDING / LateConsiderationModel.Q_HAS_PENDING:
\* SELECT COUNT(*) ... WHERE employee_id = %s AND <date> = %s AND status = 'Pending'
Q_HAS_PENDING(table, e, date) ==
    Cardinality({i \in DOMAIN table :
                    /\ table[i].employee_id = e
                    /\ table[i].date = date
                    /\ table[i].status = "Pending"})

\* OvertimeModel.Q_SELECT_APPROVED_FOR_DATE: the rows ... AND status = 'Approved'
Q_SELECT_APPROVED_FOR_DATE(table, e, date) ==
    {i \in DOMAIN table :
        /\ table[i].employee_id = e
        /\ table[i].date = date
        /\ table[i].status = "Approved"}

\* LateConsiderationModel.Q_SELECT_BY_EMPLOYEE: every row of the employee
Q_SELECT_BY_EMPLOYEE(table, e) ==
    {i \in DOMAIN table : table[i].employee_id = e}

\* has_pending_overtime: result['count'] > 0 if result else False
has_pending_overtime(dbok, e, request_date) ==
    IF dbok THEN Q_HAS_PENDING(overtime_requests, e, request_date) > 0 ELSE FALSE

\* submit_leave: days = (end - start).days + 1; refused when days < 1 or
\* days > the balance the form shows; then create_leave_request, no look at
\* the requests already stored
submit_leave(s, start_date, end_date) ==
    /\ epc[s] = "idle"
    /\ Len(leave_requests) < MaxSubmitted
    /\ LET days == (end_date - start_date) + 1
           e == employee_id(s)
       IN  IF days < 1
           THEN /\ ret' = Return(FALSE, "Invalid Dates")
                /\ UNCHANGED leave_requests
           ELSE IF days > leave_credits[e]
           THEN /\ ret' = Return(FALSE, "Insufficient Credits")
                /\ UNCHANGED leave_requests
           ELSE \E dbok \in BOOLEAN :
                   /\ leave_requests' =
                         IF dbok
                         THEN Append(leave_requests, LeaveRow(e, start_date, end_date, days))
                         ELSE leave_requests
                   /\ ret' = IF dbok THEN Return(TRUE, "Success")
                                     ELSE Return(FALSE, "Error")
    /\ UNCHANGED <<leave_credits, overtime_requests, late_considerations,
                   clock, pc, loc, debited>>
    /\ UNCHANGED <<sesVars, attVars, fnVars>>

\* submit_overtime, first round trip: has_pending_overtime
submit_overtime_has_pending(s, request_date) ==
    /\ epc[s] = "idle"
    /\ Len(overtime_requests) < MaxSubmitted
    /\ \E dbok \in BOOLEAN :
          IF has_pending_overtime(dbok, employee_id(s), request_date)
          THEN /\ ret' = Return(FALSE, "Duplicate Request")
               /\ UNCHANGED <<epc, eloc>>
          ELSE /\ epc' = [epc EXCEPT ![s] = "get_approved_overtime"]
               /\ eloc' = [eloc EXCEPT ![s].date = request_date]
               /\ ret' = ret
    /\ UNCHANGED <<leave_credits, leave_requests, overtime_requests,
                   late_considerations, clock, pc, loc, debited>>
    /\ UNCHANGED <<attVars, fnVars>>

\* submit_overtime, second round trip: get_approved_overtime_for_date
submit_overtime_get_approved(s) ==
    /\ epc[s] = "get_approved_overtime"
    /\ \E dbok \in BOOLEAN :
          IF dbok /\ Q_SELECT_APPROVED_FOR_DATE(overtime_requests, employee_id(s),
                                                eloc[s].date) # {}
          THEN /\ ret' = Return(FALSE, "Already Approved")
               /\ epc' = [epc EXCEPT ![s] = "idle"]
               /\ eloc' = [eloc EXCEPT ![s] = NoSessionLocals]
          ELSE /\ epc' = [epc EXCEPT ![s] = "create_overtime_request"]
               /\ UNCHANGED <<eloc, ret>>
    /\ UNCHANGED <<leave_credits, leave_requests, overtime_requests,
                   late_considerations, clock, pc, loc, debited>>
    /\ UNCHANGED <<attVars, fnVars>>

\* submit_overtime, third round trip: create_overtime_request
submit_overtime_create(s) ==
    /\ epc[s] = "create_overtime_request"
    /\ \E dbok \in BOOLEAN :
          /\ overtime_requests' =
                IF dbok
                THEN Append(overtime_requests, RequestRow(employee_id(s), eloc[s].date))
                ELSE overtime_requests
          /\ ret' = IF dbok THEN Return(TRUE, "Success") ELSE Return(FALSE, "Error")
    /\ epc' = [epc EXCEPT ![s] = "idle"]
    /\ eloc' = [eloc EXCEPT ![s] = NoSessionLocals]
    /\ UNCHANGED <<leave_credits, leave_requests, late_considerations,
                   clock, pc, loc, debited>>
    /\ UNCHANGED <<attVars, fnVars>>

\* show_request_late_consideration_dialog: the date combo offers the late
\* dates for which get_employee_late_considerations returned no row ("or []"
\* when the read fails); every date of Dates is taken to be a late date
show_request_late_consideration_dialog(s, attendance_date) ==
    /\ epc[s] = "idle"
    /\ Len(late_considerations) < MaxSubmitted
    /\ \E dbok \in BOOLEAN :
          LET existing_considerations ==
                  IF dbok THEN Q_SELECT_BY_EMPLOYEE(late_considerations, employee_id(s))
                          ELSE {}
              existing_dates == {late_considerations[i].date : i \in existing_considerations}
          IN  attendance_date \notin existing_dates
    /\ epc' = [epc EXCEPT ![s] = "late_dialog"]
    /\ eloc' = [eloc EXCEPT ![s].date = attendance_date]
    /\ UNCHANGED reqVars
    /\ UNCHANGED <<attVars, fnVars>>

\* submit_consideration: create_late_consideration with the date picked in
\* the dialog; the dialog closes on success and stays open on failure
submit_consideration(s) ==
    /\ epc[s] = "late_dialog"
    /\ Len(late_considerations) < MaxSubmitted
    /\ \E dbok \in BOOLEAN :
          /\ late_considerations' =
                IF dbok
                THEN Append(late_considerations,
                            RequestRow(employee_id(s), eloc[s].date))
                ELSE late_considerations
          /\ ret' = IF dbok THEN Return(TRUE, "Success") ELSE Return(FALSE, "Error")
          /\ epc' = IF dbok THEN [epc EXCEPT ![s] = "idle"] ELSE epc
          /\ eloc' = IF dbok THEN [eloc EXCEPT ![s] = NoSessionLocals] ELSE eloc
    /\ UNCHANGED <<leave_credits, leave_requests, overtime_requests,
                   clock, pc, loc, debited>>
    /\ UNCHANGED <<attVars, fnVars>>

\* Cancel in the late-consideration dialog: dialog.reject
late_dialog_reject(s) ==
    /\ epc[s] = "late_dialog"
    /\ epc' = [epc EXCEPT ![s] = "idle"]
    /\ eloc' = [eloc EXCEPT ![s] = NoSessionLocals]
    /\ UNCHANGED reqVars
    /\ UNCHANGED <<attVars, fnVars>>

\* ---------------------------------------------------------------- attendance: computation
\* AttendanceModel.STANDARD_WORKING_HOURS, in hundredths of an hour
STANDARD_WORKING_HOURS == 800

SecondsPerDay == 86400

\* hh:mm as seconds since midnight
HM(h, m) == (h * 3600) + (m * 60)

\* Python truth of a TIME value the driver hands back as a timedelta:
\* None and timedelta(0), that is midnight, are both false
Truthy(t) == t # None /\ t # 0

\* datetime.weekday() of a day number: day 1 is a Saturday, Sunday is 6
Weekday(day) == (day + 4) % 7

\* round(seconds / 3600, 2), in hundredths of an hour.  Whole minutes never
\* fall on a rounding tie (a tie needs seconds % 36 = 18).
Round2(seconds) == (seconds + 18) \div 36

\* paid hours with an hour of lunch taken off when no lunch was recorded
compute_paid_hours_default_lunch(time_in, time_out, lunch_start, lunch_end) ==
    IF time_in = None \/ time_out = None
    THEN [total_time |-> 0, lunch_duration |-> 0, paid_hours |-> 0]
    ELSE LET total_seconds == time_out - time_in
             lunch_seconds == IF Truthy(lunch_start) /\ Truthy(lunch_end)
                              THEN lunch_end - lunch_start
                              ELSE 3600
         IN  [total_time |-> Round2(total_seconds),
              lunch_duration |-> Round2(lunch_seconds),
              paid_hours |-> Round2(total_seconds - lunch_seconds)]

\* AttendanceController.compute_paid_hours
compute_paid_hours(time_in, time_out, lunch_start, lunch_end) ==
    IF time_in = None \/ time_out = None
    THEN [total_time |-> 0, lunch_duration |-> 0, paid_hours |-> 0]
    ELSE LET total_seconds == time_out - time_in
             lunch_seconds == IF Truthy(lunch_start) /\ Truthy(lunch_end)
                              THEN lunch_end - lunch_start
                              ELSE 0
         IN  [total_time |-> Round2(total_seconds),
              lunch_duration |-> Round2(lunch_seconds),
              paid_hours |-> Round2(total_seconds - lunch_seconds)]

\* the punctuality test with the grace period left out
IsLate_no_grace(time_in, shift_start_time, grace_period_mins) ==
    time_in > shift_start_time

\* determine_status, punctuality: grace_end is the time-of-day part of
\* shift start + grace, so it wraps past midnight; Late iff time_in > grace_end
IsLate(time_in, shift_start_time, grace_period_mins) ==
    time_in > (shift_start_time + (grace_period_mins * 60)) % SecondsPerDay

\* a verdict in which a late arrival is never Complete
determine_status_late_undertime(time_in, paid_hours, shift_start_time, grace_period_mins) ==
    IF IsLate(time_in, shift_start_time, grace_period_mins)
    THEN "Late, Undertime"
    ELSE IF paid_hours >= STANDARD_WORKING_HOURS THEN "On Time, Complete"
                                                 ELSE "On Time, Undertime"

\* AttendanceController.determine_status
determine_status(time_in, paid_hours, shift_start_time, grace_period_mins) ==
    IF IsLate(time_in, shift_start_time, grace_period_mins)
    THEN IF paid_hours >= STANDARD_WORKING_HOURS THEN "Late, Complete"
                                                 ELSE "Late, Undertime"
    ELSE IF paid_hours >= STANDARD_WORKING_HOURS THEN "On Time, Complete"
                                                 ELSE "On Time, Undertime"

StatusLabels == {"On Time, Complete", "On Time, Undertime",
                 "Late, Complete", "Late, Undertime"}

\* ---------------------------------------------------------------- attendance: shifts
NoShift == [shift_name |-> "none"]

ShiftRow(name, start_time, end_time, grace, min_hours, is_default) ==
    [shift_name |-> name, start_time |-> start_time, end_time |-> end_time,
     grace_period_mins |-> grace, min_hours_before_lunch |-> min_hours,
     is_default |-> is_default, is_active |-> TRUE]

\* fetch_one: the first row of the result, None when there is none
FirstOf(table, ids) ==
    IF ids = {} THEN NoShift
    ELSE table[CHOOSE i \in ids : \A j \in ids : i <= j]

\* AttendanceController._get_employee_shift: the employee's own active shift,
\* else the active default shift, else the first active shift, else None.
\* ok[n] says whether the n-th fetch_one succeeds; a failed one hands back None
get_employee_shift_read(ok, e) ==
    LET own == {i \in DOMAIN shifts : i = shift_id[e] /\ shifts[i].is_active}
        default == {i \in DOMAIN shifts : shifts[i].is_default /\ shifts[i].is_active}
        active == {i \in DOMAIN shifts : shifts[i].is_active}
        shift1 == IF ok[1] THEN FirstOf(shifts, own) ELSE NoShift
        shift2 == IF ok[2] THEN FirstOf(shifts, default) ELSE NoShift
        shift3 == IF ok[3] THEN FirstOf(shifts, active) ELSE NoShift
    IN  IF shift1 # NoShift THEN shift1
        ELSE IF shift2 # NoShift THEN shift2
        ELSE shift3

\* _get_employee_shift when every read succeeds
get_employee_shift(e) == get_employee_shift_read(<<TRUE, TRUE, TRUE>>, e)

\* to_time of can_check_in raises ValueError for a TIME of 24 hours or more
\* and the comparison raises TypeError for None: both are swallowed
IsTimeOfDay(t) == t # None /\ t >= 0 /\ t < SecondsPerDay

\* can_check_in, lines 63-103: outside the shift window
OutsideShift(shift, current_t) ==
    IF shift = NoShift THEN FALSE
    ELSE IF ~(IsTimeOfDay(shift.start_time) /\ IsTimeOfDay(shift.end_time)) THEN FALSE
    ELSE IF shift.start_time < shift.end_time
         THEN current_t > shift.end_time
         ELSE shift.end_time < current_t /\ current_t < shift.start_time

\* ---------------------------------------------------------------- attendance: store
\* AttendanceModel.Q_CHECK_IN: INSERT (employee_id, date, time_in, status)
\* VALUES (..., 'Incomplete'); the columns it does not name start NULL
AttendanceRow(e, date, time_in) ==
    [employee_id |-> e, date |-> date, time_in |-> time_in, time_out |-> None,
     lunch_start |-> None, lunch_end |-> None, total_time |-> None,
     lunch_duration |-> None, paid_hours |-> None, overtime_hours |-> None,
     status |-> "Incomplete"]

\* rows matching WHERE employee_id = %s AND date = %s
RowsOf(table, e, date) ==
    {i \in DOMAIN table : table[i].employee_id = e /\ table[i].date = date}

\* get_today_record: fetch_one(Q_GET_TODAY), None when no row or the read failed
get_today_record(dbok, e) ==
    IF dbok /\ RowsOf(attendance, e, today) # {}
    THEN attendance[CHOOSE i \in RowsOf(attendance, e, today) :
                       \A j \in RowsOf(attendance, e, today) : i <= j]
    ELSE NoRecord

\* AttendanceModel.Q_START_LUNCH
Q_START_LUNCH(table, t, e, date) ==
    [i \in DOMAIN table |->
        IF i \in RowsOf(table, e, date) THEN [table[i] EXCEPT !.lunch_start = t]
        ELSE table[i]]

\* AttendanceModel.Q_END_LUNCH
Q_END_LUNCH(table, t, e, date) ==
    [i \in DOMAIN table |->
        IF i \in RowsOf(table, e, date) THEN [table[i] EXCEPT !.lunch_end = t]
        ELSE table[i]]

\* AttendanceModel.Q_CHECK_OUT
Q_CHECK_OUT(table, params, e, date) ==
    [i \in DOMAIN table |->
        IF i \in RowsOf(table, e, date)
        THEN [table[i] EXCEPT !.time_out = params.time_out,
                              !.total_time = params.total_time,
                              !.lunch_duration = params.lunch_duration,
                              !.paid_hours = params.paid_hours,
                              !.overtime_hours = params.overtime_hours,
                              !.status = params.status]
        ELSE table[i]]

\* ---------------------------------------------------------------- attendance: handlers
\* times of day the clock is looked at
Times == {HM(8, 10), HM(12, 0), HM(13, 0), HM(18, 0)}
\* the first time of a day the clock is looked at
DayStart == HM(8, 10)

\* can_check_in; handle_check_in then asks for confirmation
can_check_in(s) ==
    /\ epc[s] = "idle"
    /\ \E dbok \in BOOLEAN :
          LET today_record == get_today_record(dbok, employee_id(s))
              shift == get_employee_shift(employee_id(s))
          IN  IF Weekday(today) = 6
              THEN /\ ret' = Return(FALSE, "Sunday - No Work Day")
                   /\ UNCHANGED epc
              ELSE IF today_record # NoRecord
              THEN /\ ret' = Return(FALSE, "Already Checked In")
                   /\ UNCHANGED epc
              ELSE IF OutsideShift(shift, now_time)
              THEN /\ ret' = Return(FALSE, "Outside Shift Schedule")
                   /\ UNCHANGED epc
              ELSE /\ ret' = Return(TRUE, "can_check_in")
                   /\ epc' = [epc EXCEPT ![s] = "check_in"]
    /\ UNCHANGED <<leave_credits, leave_requests, overtime_requests,
                   late_considerations, clock, pc, loc, debited>>
    /\ UNCHANGED <<eloc, attVars, fnVars>>

\* handle_check_in: "No" in the confirmation question
check_in_declined(s) ==
    /\ epc[s] = "check_in"
    /\ epc' = [epc EXCEPT ![s] = "idle"]
    /\ UNCHANGED reqVars
    /\ UNCHANGED <<eloc, attVars, fnVars>>

\* a check-in that passes the date where the time belongs, which the store
\* reads as midnight
check_in_date_as_time(s) ==
    /\ epc[s] = "check_in"
    /\ Len(attendance) < MaxSubmitted
    /\ \E dbok \in BOOLEAN :
          /\ attendance' = IF dbok
                           THEN Append(attendance,
                                       AttendanceRow(employee_id(s), today, 0))
                           ELSE attendance
          /\ ret' = IF dbok THEN Return(TRUE, "Check In Successful")
                            ELSE Return(FALSE, "Check In Failed")
    /\ epc' = [epc EXCEPT ![s] = "idle"]
    /\ UNCHANGED <<leave_credits, leave_requests, overtime_requests,
                   late_considerations, clock, pc, loc, debited>>
    /\ UNCHANGED <<eloc, shifts, shift_id, today, now_time, fnVars>>

\* check_in: one INSERT with today's date and the current time
check_in(s) ==
    /\ epc[s] = "check_in"
    /\ Len(attendance) < MaxSubmitted
    /\ \E dbok \in BOOLEAN :
          /\ attendance' = IF dbok
                           THEN Append(attendance,
                                       AttendanceRow(employee_id(s), today, now_time))
                           ELSE attendance
          /\ ret' = IF dbok THEN Return(TRUE, "Check In Successful")
                            ELSE Return(FALSE, "Check In Failed")
    /\ epc' = [epc EXCEPT ![s] = "idle"]
    /\ UNCHANGED <<leave_credits, leave_requests, overtime_requests,
                   late_considerations, clock, pc, loc, debited>>
    /\ UNCHANGED <<eloc, shifts, shift_id, today, now_time, fnVars>>

\* can_start_lunch, line 138: float(shift.get('min_hours_before_lunch') or 3)
\* if shift else 3.0, in hours
min_hours(shift) ==
    IF shift = NoShift THEN 3
    ELSE IF shift.min_hours_before_lunch = 0 THEN 3
    ELSE shift.min_hours_before_lunch

\* can_start_lunch: the outcome for the record and shift that were read
can_start_lunch_result(today_record, shift, current) ==
    IF today_record = NoRecord THEN Return(FALSE, "Not Checked In")
    ELSE IF Truthy(today_record.lunch_start) THEN Return(FALSE, "Lunch Already Started")
    ELSE IF Truthy(today_record.time_out) THEN Return(FALSE, "Already Checked Out")
    ELSE IF /\ Truthy(today_record.time_in)
            /\ current < today_record.time_in + (min_hours(shift) * 3600)
         THEN [ok |-> FALSE, msg |-> "Cannot Start Lunch Yet",
               mins_left |-> ((today_record.time_in + (min_hours(shift) * 3600))
                                 - current) \div 60]
    ELSE Return(TRUE, "can_start_lunch")

can_start_lunch(s) ==
    /\ epc[s] = "idle"
    /\ \E dbok \in BOOLEAN :
          /\ ret' = can_start_lunch_result(get_today_record(dbok, employee_id(s)),
                                           get_employee_shift(employee_id(s)), now_time)
          /\ epc' = IF ret'.ok THEN [epc EXCEPT ![s] = "start_lunch"] ELSE epc
    /\ UNCHANGED <<leave_credits, leave_requests, overtime_requests,
                   late_considerations, clock, pc, loc, debited>>
    /\ UNCHANGED <<eloc, attVars, fnVars>>

\* start_lunch: execute_query(Q_START_LUNCH) with the current time
start_lunch(s) ==
    /\ epc[s] = "start_lunch"
    /\ \E dbok \in BOOLEAN :
          /\ attendance' = IF dbok
                           THEN Q_START_LUNCH(attendance, now_time, employee_id(s), today)
                           ELSE attendance
          /\ ret' = IF dbok THEN Return(TRUE, "Lunch Started")
                            ELSE Return(FALSE, "Failed")
    /\ epc' = [epc EXCEPT ![s] = "idle"]
    /\ UNCHANGED <<leave_credits, leave_requests, overtime_requests,
                   late_considerations, clock, pc, loc, debited>>
    /\ UNCHANGED <<eloc, shifts, shift_id, today, now_time, fnVars>>

\* can_end_lunch: the outcome for the record that was read
can_end_lunch_result(today_record) ==
    IF today_record = NoRecord THEN Return(FALSE, "Not Checked In")
    ELSE IF ~Truthy(today_record.lunch_start) THEN Return(FALSE, "Lunch Not Started")
    ELSE IF Truthy(today_record.lunch_end) THEN Return(FALSE, "Lunch Already Ended")
    ELSE Return(TRUE, "can_end_lunch")

can_end_lunch(s) ==
    /\ epc[s] = "idle"
    /\ \E dbok \in BOOLEAN :
          /\ ret' = can_end_lunch_result(get_today_record(dbok, employee_id(s)))
          /\ epc' = IF ret'.ok THEN [epc EXCEPT ![s] = "end_lunch"] ELSE epc
    /\ UNCHANGED <<leave_credits, leave_requests, overtime_requests,
                   late_considerations, clock, pc, loc, debited>>
    /\ UNCHANGED <<eloc, attVars, fnVars>>

\* end_lunch: execute_query(Q_END_LUNCH) with the current time
end_lunch(s) ==
    /\ epc[s] = "end_lunch"
    /\ \E dbok \in BOOLEAN :
          /\ attendance' = IF dbok
                           THEN Q_END_LUNCH(attendance, now_time, employee_id(s), today)
                           ELSE attendance
          /\ ret' = IF dbok THEN Return(TRUE, "Lunch Ended")
                            ELSE Return(FALSE, "Failed")
    /\ epc' = [epc EXCEPT ![s] = "idle"]
    /\ UNCHANGED <<leave_credits, leave_requests, overtime_requests,
                   late_considerations, clock, pc, loc, debited>>
    /\ UNCHANGED <<eloc, shifts, shift_id, today, now_time, fnVars>>

\* can_check_out: the outcome for the record that was read
can_check_out_result(today_record) ==
    IF today_record = NoRecord THEN Return(FALSE, "Not Checked In")
    ELSE IF Truthy(today_record.time_out) THEN Return(FALSE, "Already Checked Out")
    ELSE Return(TRUE, "can_check_out")

\* handle_check_out up to the call of check_out
can_check_out(s) ==
    /\ epc[s] = "idle"
    /\ \E dbok \in BOOLEAN :
          /\ ret' = can_check_out_result(get_today_record(dbok, employee_id(s)))
          /\ epc' = IF ret'.ok THEN [epc EXCEPT ![s] = "check_out"] ELSE epc
    /\ UNCHANGED <<leave_credits, leave_requests, overtime_requests,
                   late_considerations, clock, pc, loc, debited>>
    /\ UNCHANGED <<eloc, attVars, fnVars>>

\* handle_logout, then "Check Out & Logout": _checkout_and_logout calls
\* check_out without can_check_out; the button is there when the record read
\* has time_in and no time_out
handle_logout(s) ==
    /\ epc[s] = "idle"
    /\ \E dbok \in BOOLEAN :
          LET today_record == get_today_record(dbok, employee_id(s))
          IN  /\ today_record # NoRecord
              /\ Truthy(today_record.time_in)
              /\ ~Truthy(today_record.time_out)
    /\ epc' = [epc EXCEPT ![s] = "check_out"]
    /\ UNCHANGED reqVars
    /\ UNCHANGED <<eloc, attVars, fnVars>>

\* a check-out whose overtime is the signed difference to the standard hours
check_out_params_signed(today_record, shift, current) ==
    LET result == compute_paid_hours(today_record.time_in, current,
                                     today_record.lunch_start, today_record.lunch_end)
        shift_start == IF shift = NoShift THEN HM(8, 0) ELSE shift.start_time
        grace_period == IF shift = NoShift THEN 15
                        ELSE IF shift.grace_period_mins = 0 THEN 15
                        ELSE shift.grace_period_mins
    IN  [time_out |-> current,
         total_time |-> result.total_time,
         lunch_duration |-> result.lunch_duration,
         paid_hours |-> result.paid_hours,
         overtime_hours |-> result.paid_hours - STANDARD_WORKING_HOURS,
         status |-> determine_status(today_record.time_in, result.paid_hours,
                                     shift_start, grace_period)]

\* check_out, lines 254-260: overtime, shift start and grace, status
check_out_params(today_record, shift, current) ==
    LET result == compute_paid_hours(today_record.time_in, current,
                                     today_record.lunch_start, today_record.lunch_end)
        over == result.paid_hours - STANDARD_WORKING_HOURS
        shift_start == IF shift = NoShift THEN HM(8, 0) ELSE shift.start_time
        grace_period == IF shift = NoShift THEN 15
                        ELSE IF shift.grace_period_mins = 0 THEN 15
                        ELSE shift.grace_period_mins
    IN  [time_out |-> current,
         total_time |-> result.total_time,
         lunch_duration |-> result.lunch_duration,
         paid_hours |-> result.paid_hours,
         overtime_hours |-> IF over > 0 THEN over ELSE 0,
         status |-> determine_status(today_record.time_in, result.paid_hours,
                                     shift_start, grace_period)]

\* check_out, lines 232-266: re-read the record, compute the update
check_out_read(s) ==
    /\ epc[s] = "check_out"
    /\ \E dbok \in BOOLEAN :
          LET today_record == get_today_record(dbok, employee_id(s))
          IN  IF ~can_check_out_result(today_record).ok
              THEN /\ ret' = can_check_out_result(today_record)
                   /\ epc' = [epc EXCEPT ![s] = "idle"]
                   /\ UNCHANGED eloc
              ELSE /\ epc' = [epc EXCEPT ![s] = "check_out_write"]
                   /\ eloc' = [eloc EXCEPT ![s] =
                                 [date |-> today,
                                  params |-> check_out_params(today_record,
                                                get_employee_shift(employee_id(s)),
                                                now_time)]]
                   /\ UNCHANGED ret
    /\ UNCHANGED <<leave_credits, leave_requests, overtime_requests,
                   late_considerations, clock, pc, loc, debited>>
    /\ UNCHANGED <<attVars, fnVars>>

\* check_out, lines 267-276: execute_query(Q_CHECK_OUT)
check_out_write(s) ==
    /\ epc[s] = "check_out_write"
    /\ \E dbok \in BOOLEAN :
          /\ attendance' = IF dbok
                           THEN Q_CHECK_OUT(attendance, eloc[s].params,
                                            employee_id(s), eloc[s].date)
                           ELSE attendance
          /\ ret' = IF dbok THEN Return(TRUE, "Check Out Successful")
                            ELSE Return(FALSE, "Check Out Failed")
    /\ epc' = [epc EXCEPT ![s] = "idle"]
    /\ eloc' = [eloc EXCEPT ![s] = NoSessionLocals]
    /\ UNCHANGED <<leave_credits, leave_requests, overtime_requests,
                   late_considerations, clock, pc, loc, debited>>
    /\ UNCHANGED <<shifts, shift_id, today, now_time, fnVars>>

\* the clock moves on within the day
AdvanceTime ==
    /\ \E t \in Times : t > now_time /\ now_time' = t
    /\ UNCHANGED reqVars
    /\ UNCHANGED <<sesVars, attendance, shifts, shift_id, today, fnVars>>

\* the next day begins
NextDay ==
    /\ today < MaxDay
    /\ today' = today + 1
    /\ now_time' = DayStart
    /\ UNCHANGED reqVars
    /\ UNCHANGED <<sesVars, attendance, shifts, shift_id, fnVars>>

\* shift tables of the runs: none, a day shift, a day shift with no grace
\* period and no wait before lunch
DayShift == ShiftRow("Day", HM(8, 0), HM(17, 0), 15, 3, TRUE)
StrictShift == ShiftRow("Strict", HM(8, 0), HM(17, 0), 0, 0, TRUE)
ShiftTables == {<<>>, <<DayShift>>, <<StrictShift>>}

InitAttendance ==
    /\ leave_credits = [e \in Employees |-> 0]
    /\ leave_requests = <<>>
    /\ overtime_requests = <<>>
    /\ late_considerations = <<>>
    /\ clock = 1
    /\ pc = [r \in Reviewers |-> "idle"]
    /\ loc = [r \in Reviewers |-> NoLocals]
    /\ ret = NoReturn
    /\ debited = [l \in 1..MaxSubmitted |-> 0]
    /\ epc = [s \in Sessions |-> "idle"]
    /\ eloc = [s \in Sessions |-> NoSessionLocals]
    /\ attendance = <<>>
    /\ shifts \in ShiftTables
    /\ shift_id = [e \in Employees |-> NULL]
    /\ today = 1
    /\ now_time = DayStart
    /\ args = NoArgs
    /\ out = NoArgs

\* the attendance day of an employee, worked from one dashboard session
NextAttendance ==
    \/ AdvanceTime
    \/ NextDay
    \/ \E s \in {FirstSession} : can_check_in(s)
    \/ \E s \in {FirstSession} : check_in_declined(s)
    \/ \E s \in {FirstSession} : check_in(s)
    \/ \E s \in {FirstSession} : can_start_lunch(s)
    \/ \E s \in {FirstSession} : start_lunch(s)
    \/ \E s \in {FirstSession} : can_end_lunch(s)
    \/ \E s \in {FirstSession} : end_lunch(s)
    \/ \E s \in {FirstSession} : can_check_out(s)
    \/ \E s \in {FirstSession} : handle_logout(s)
    \/ \E s \in {FirstSession} : check_out_read(s)
    \/ \E s \in {FirstSession} : check_out_write(s)

\* check-in from every dashboard session of the employee
NextCheckIn ==
    \/ AdvanceTime
    \/ NextDay
    \/ \E s \in Sessions : can_check_in(s)
    \/ \E s \in Sessions : check_in_declined(s)
    \/ \E s \in Sessions : check_in(s)

\* ---------------------------------------------------------------- guards on sampled states
\* no request stored, no call in progress in any session
InitNoRequests ==
    /\ leave_credits = [e \in Employees |-> 0]
    /\ leave_requests = <<>>
    /\ overtime_requests = <<>>
    /\ late_considerations = <<>>
    /\ clock = 1
    /\ pc = [r \in Reviewers |-> "idle"]
    /\ loc = [r \in Reviewers |-> NoLocals]
    /\ ret = NoReturn
    /\ debited = [l \in 1..MaxSubmitted |-> 0]
    /\ epc = [s \in Sessions |-> "idle"]
    /\ eloc = [s \in Sessions |-> NoSessionLocals]

NightShift == ShiftRow("Night", HM(22, 0), HM(7, 0), 15, 3, TRUE)
\* a shift saved with the same start and end time; the form checks neither
EqualShift == ShiftRow("Equal", HM(9, 0), HM(9, 0), 15, 3, TRUE)
GuardShiftTables == {<<>>, <<DayShift>>, <<NightShift>>, <<StrictShift>>, <<EqualShift>>}

GuardTimes == {0, HM(7, 0), HM(8, 10), HM(11, 9) + 30, HM(11, 10), HM(12, 0),
               HM(17, 0), HM(18, 0), HM(22, 0)}

\* today's record of the employee at the stages of the day, checked in at
\* midnight or at 08:10
GuardRecords(e, date) ==
    LET fresh(t) == AttendanceRow(e, date, t)
        onlunch == [fresh(HM(8, 10)) EXCEPT !.lunch_start = HM(12, 0)]
        lunchdone == [onlunch EXCEPT !.lunch_end = HM(13, 0)]
        checked_out(row) == [row EXCEPT !.time_out = HM(17, 0), !.total_time = 883,
                                        !.lunch_duration = 0, !.paid_hours = 883,
                                        !.overtime_hours = 83,
                                        !.status = "On Time, Complete"]
    IN  {fresh(0), fresh(HM(8, 10)), onlunch, lunchdone,
         checked_out(fresh(HM(8, 10))), checked_out(onlunch)}

InitGuards ==
    /\ InitNoRequests
    /\ today \in 1..MaxDay
    /\ now_time \in GuardTimes
    /\ shifts \in GuardShiftTables
    /\ shift_id = [e \in Employees |-> NULL]
    /\ attendance \in {<<>>} \cup {<<row>> : row \in GuardRecords(employee_id(FirstSession), today)}
    \* no timestamp of today's record is later than the current time
    /\ \A i \in DOMAIN attendance :
          \A t \in {attendance[i].time_in, attendance[i].lunch_start,
                    attendance[i].lunch_end, attendance[i].time_out} : t <= now_time
    /\ args = NoArgs
    /\ out = NoArgs

\* each guard of the attendance day, evaluated once
NextGuards ==
    \/ \E s \in {FirstSession} : can_check_in(s)
    \/ \E s \in {FirstSession} : can_start_lunch(s)
    \/ \E s \in {FirstSession} : can_end_lunch(s)
    \/ \E s \in {FirstSession} : can_check_out(s)

\* ---------------------------------------------------------------- determine_status on sampled arguments
\* check-in times from ten minutes before the shift start to twenty minutes
\* after it, on the day the shift starts
StatusArgs ==
    {[fn |-> "determine_status", time_in |-> start + (d * 60), paid_hours |-> p,
      shift_start_time |-> start, grace_period_mins |-> g] :
        start \in {HM(8, 0), HM(12, 0), HM(23, 50)},
        d \in {0 - 10, 0, 1, 5, 15, 16, 20},
        p \in {750, 800, 850},
        g \in {0, 15}}
    \cap [fn : {"determine_status"}, time_in : 0..(SecondsPerDay - 1),
          paid_hours : {750, 800, 850},
          shift_start_time : {HM(8, 0), HM(12, 0), HM(23, 50)},
          grace_period_mins : {0, 15}]

InitStatus ==
    /\ InitNoRequests
    /\ today = 1
    /\ now_time = 0
    /\ shifts = <<>>
    /\ shift_id = [e \in Employees |-> NULL]
    /\ attendance = <<>>
    /\ args \in StatusArgs
    /\ out = NoArgs

determine_status_call ==
    /\ args.fn = "determine_status"
    /\ out = NoArgs
    /\ out' = [fn |-> "determine_status",
               status |-> determine_status(args.time_in, args.paid_hours,
                                           args.shift_start_time, args.grace_period_mins)]
    /\ UNCHANGED reqVars
    /\ UNCHANGED <<sesVars, attVars, args>>

NextStatus == determine_status_call

\* ---------------------------------------------------------------- compute_paid_hours on sampled arguments
\* times of day of one record, to the second
PaidTimes == {0, HM(8, 0), HM(8, 0) + 20, HM(8, 0) + 40, HM(12, 0), HM(13, 0),
              HM(13, 0) + 20, HM(17, 0)}

\* Round2 is round(seconds / 3600, 2) away from a rounding tie
NoTie(seconds) == seconds % 36 # 18

\* the four timestamps of a record in the order the day writes them, each
\* absent or present; lunch_end is present only after lunch_start
PaidArgs ==
    {a \in [fn : {"compute_paid_hours"}, time_in : PaidTimes \cup {None},
            time_out : PaidTimes \cup {None}, lunch_start : PaidTimes \cup {None},
            lunch_end : PaidTimes \cup {None}] :
        /\ (a.lunch_end # None) => (a.lunch_start # None /\ a.lunch_start <= a.lunch_end)
        /\ (a.time_in # None /\ a.lunch_start # None) => a.time_in <= a.lunch_start
        /\ (a.time_in # None /\ a.time_out # None) => a.time_in <= a.time_out
        /\ (a.lunch_start # None /\ a.time_out # None) => a.lunch_start <= a.time_out
        /\ (a.lunch_end # None /\ a.time_out # None) => a.lunch_end <= a.time_out
        /\ (a.time_in # None /\ a.time_out # None) => NoTie(a.time_out - a.time_in)
        /\ (a.lunch_start # None /\ a.lunch_end # None)
              => /\ NoTie(a.lunch_end - a.lunch_start)
                 /\ (a.time_in # None /\ a.time_out # None)
                       => NoTie((a.time_out - a.time_in) - (a.lunch_end - a.lunch_start))}

InitPaidHours ==
    /\ InitNoRequests
    /\ today = 1
    /\ now_time = 0
    /\ shifts = <<>>
    /\ shift_id = [e \in Employees |-> NULL]
    /\ attendance = <<>>
    /\ args \in PaidArgs
    /\ out = NoArgs

compute_paid_hours_call ==
    /\ args.fn = "compute_paid_hours"
    /\ out = NoArgs
    /\ out' = [fn |-> "compute_paid_hours",
               result |-> compute_paid_hours(args.time_in, args.time_out,
                                             args.lunch_start, args.lunch_end)]
    /\ UNCHANGED reqVars
    /\ UNCHANGED <<sesVars, attVars, args>>

NextPaidHours == compute_paid_hours_call

\* ---------------------------------------------------------------- shift administration
\* ShiftModel.Q_UNSET_ALL_DEFAULTS
Q_UNSET_ALL_DEFAULTS(table) ==
    [i \in DOMAIN table |-> [table[i] EXCEPT !.is_default = FALSE]]

\* ShiftModel.Q_UNSET_DEFAULTS_EXCEPT
Q_UNSET_DEFAULTS_EXCEPT(table, id) ==
    [i \in DOMAIN table |-> IF i # id THEN [table[i] EXCEPT !.is_default = FALSE]
                                      ELSE table[i]]

\* ShiftModel.Q_UPDATE: every column but is_active, of the row with this id
Q_UPDATE_SHIFT(table, row, id) ==
    [i \in DOMAIN table |-> IF i = id THEN [row EXCEPT !.is_active = table[i].is_active]
                                      ELSE table[i]]

\* what the shift form submits
ShiftForms ==
    {ShiftRow("Day", HM(8, 0), HM(17, 0), 15, 3, d) : d \in BOOLEAN}
    \cup {ShiftRow("Night", HM(22, 0), HM(6, 0), 15, 3, d) : d \in BOOLEAN}

\* create_shift, first round trip: Q_UNSET_ALL_DEFAULTS when is_default is
\* requested (its result is not looked at), else the insert itself
create_shift(r, row) ==
    /\ pc[r] = "idle"
    /\ Len(shifts) < MaxShifts
    /\ \E dbok \in BOOLEAN :
          IF row.is_default
          THEN /\ shifts' = IF dbok THEN Q_UNSET_ALL_DEFAULTS(shifts) ELSE shifts
               /\ pc' = [pc EXCEPT ![r] = "create_shift_insert"]
               /\ loc' = [loc EXCEPT ![r] = [shift_id |-> NULL, row |-> row]]
               /\ ret' = ret
          ELSE /\ shifts' = IF dbok THEN Append(shifts, row) ELSE shifts
               /\ pc' = pc
               /\ loc' = loc
               /\ ret' = IF dbok THEN Return(TRUE, "create_shift")
                                 ELSE Return(FALSE, "create_shift")
    /\ UNCHANGED <<leave_credits, leave_requests, overtime_requests,
                   late_considerations, clock, debited>>
    /\ UNCHANGED <<sesVars, attendance, shift_id, today, now_time, fnVars>>

\* create_shift, second round trip: Q_INSERT of the default shift
create_shift_insert(r) ==
    /\ pc[r] = "create_shift_insert"
    /\ \E dbok \in BOOLEAN :
          /\ shifts' = IF dbok /\ Len(shifts) < MaxShifts
                        THEN Append(shifts, loc[r].row) ELSE shifts
          /\ ret' = IF dbok /\ Len(shifts) < MaxShifts
                     THEN Return(TRUE, "create_shift")
                     ELSE Return(FALSE, "create_shift")
    /\ pc' = [pc EXCEPT ![r] = "idle"]
    /\ loc' = [loc EXCEPT ![r] = NoLocals]
    /\ UNCHANGED <<leave_credits, leave_requests, overtime_requests,
                   late_considerations, clock, debited>>
    /\ UNCHANGED <<sesVars, attendance, shift_id, today, now_time, fnVars>>

\* update_shift, first round trip: Q_UNSET_DEFAULTS_EXCEPT when is_default is
\* requested (its result is not looked at), else the update itself
update_shift(r, id, row) ==
    /\ pc[r] = "idle"
    /\ id \in DOMAIN shifts
    /\ \E dbok \in BOOLEAN :
          IF row.is_default
          THEN /\ shifts' = IF dbok THEN Q_UNSET_DEFAULTS_EXCEPT(shifts, id) ELSE shifts
               /\ pc' = [pc EXCEPT ![r] = "update_shift_write"]
               /\ loc' = [loc EXCEPT ![r] = [shift_id |-> id, row |-> row]]
               /\ ret' = ret
          ELSE /\ shifts' = IF dbok THEN Q_UPDATE_SHIFT(shifts, row, id) ELSE shifts
               /\ pc' = pc
               /\ loc' = loc
               /\ ret' = IF dbok THEN Return(TRUE, "update_shift")
                                 ELSE Return(FALSE, "update_shift")
    /\ UNCHANGED <<leave_credits, leave_requests, overtime_requests,
                   late_considerations, clock, debited>>
    /\ UNCHANGED <<sesVars, attendance, shift_id, today, now_time, fnVars>>

\* update_shift, second round trip: Q_UPDATE of the default shift
update_shift_write(r) ==
    /\ pc[r] = "update_shift_write"
    /\ \E dbok \in BOOLEAN :
          /\ shifts' = IF dbok THEN Q_UPDATE_SHIFT(shifts, loc[r].row, loc[r].shift_id)
                                ELSE shifts
          /\ ret' = IF dbok THEN Return(TRUE, "update_shift")
                             ELSE Return(FALSE, "update_shift")
    /\ pc' = [pc EXCEPT ![r] = "idle"]
    /\ loc' = [loc EXCEPT ![r] = NoLocals]
    /\ UNCHANGED <<leave_credits, leave_requests, overtime_requests,
                   late_considerations, clock, debited>>
    /\ UNCHANGED <<sesVars, attendance, shift_id, today, now_time, fnVars>>

\* ShiftModel.Q_DEACTIVATE: UPDATE shifts SET is_active = 0
\* WHERE id = %s AND is_default = 0
Q_DEACTIVATE(table, id) ==
    [i \in DOMAIN table |->
        IF i = id /\ ~table[i].is_default THEN [table[i] EXCEPT !.is_active = FALSE]
        ELSE table[i]]

\* ShiftModel.Q_COUNT_EMPLOYEES: the employees assigned to the shift (every
\* employee record kept here is Active); fetch_one gives None when it fails
Q_COUNT_EMPLOYEES(dbok, id) ==
    IF dbok THEN Cardinality({e \in Employees : shift_id[e] = id}) ELSE None

\* ShiftController.delete_shift, first round trip: the count of assigned
\* employees; "if result and result['count'] > 0" returns the refusal
delete_shift(r, id) ==
    /\ pc[r] = "idle"
    /\ id \in DOMAIN shifts
    /\ \E dbok \in BOOLEAN :
          LET result == Q_COUNT_EMPLOYEES(dbok, id)
          IN  IF result # None /\ result > 0
              THEN /\ ret' = Return(FALSE, "Cannot delete shift - employee(s) assigned.")
                   /\ UNCHANGED <<pc, loc>>
              ELSE /\ pc' = [pc EXCEPT ![r] = "delete_shift_deactivate"]
                   /\ loc' = [loc EXCEPT ![r] = [shift_id |-> id]]
                   /\ ret' = ret
    /\ UNCHANGED <<leave_credits, leave_requests, overtime_requests,
                   late_considerations, clock, debited>>
    /\ UNCHANGED <<sesVars, attVars, fnVars>>

\* ShiftController.delete_shift, second round trip: execute_query(Q_DEACTIVATE)
\* is True whenever the statement ran, whatever number of rows it changed
delete_shift_deactivate(r) ==
    /\ pc[r] = "delete_shift_deactivate"
    /\ \E dbok \in BOOLEAN :
          /\ shifts' = IF dbok THEN Q_DEACTIVATE(shifts, loc[r].shift_id) ELSE shifts
          /\ ret' = IF dbok THEN Return(TRUE, "Shift deleted successfully.")
                            ELSE Return(FALSE, "Cannot delete the default shift.")
    /\ pc' = [pc EXCEPT ![r] = "idle"]
    /\ loc' = [loc EXCEPT ![r] = NoLocals]
    /\ UNCHANGED <<leave_credits, leave_requests, overtime_requests,
                   late_considerations, clock, debited>>
    /\ UNCHANGED <<sesVars, attendance, shift_id, today, now_time, fnVars>>

\* a dashboard resolves the employee's shift: three reads, each of which may fail
get_employee_shift_call(e) ==
    /\ \E ok \in [1..3 -> BOOLEAN] :
          out' = [fn |-> "_get_employee_shift", employee_id |-> e,
                  shift |-> get_employee_shift_read(ok, e)]
    /\ UNCHANGED reqVars
    /\ UNCHANGED <<sesVars, attVars, args>>

\* shift tables an installation starts from: none, one default shift, a
\* deactivated shift beside or without an active one
Deactivated(row) == [row EXCEPT !.is_active = FALSE]

ShiftSamples ==
    {<<>>,
     <<ShiftRow("Day", HM(8, 0), HM(17, 0), 15, 3, TRUE)>>,
     <<ShiftRow("Day", HM(8, 0), HM(17, 0), 15, 3, FALSE)>>,
     <<Deactivated(ShiftRow("Night", HM(22, 0), HM(6, 0), 15, 3, FALSE))>>,
     <<Deactivated(ShiftRow("Night", HM(22, 0), HM(6, 0), 15, 3, FALSE)),
       ShiftRow("Day", HM(8, 0), HM(17, 0), 15, 3, TRUE)>>}

InitShifts ==
    /\ InitNoRequests
    /\ today = 1
    /\ now_time = 0
    /\ shifts \in {sh \in ShiftSamples : Len(sh) <= MaxShifts}
    /\ shift_id \in [Employees -> {NULL} \cup DOMAIN shifts]
    /\ attendance = <<>>
    /\ args = NoArgs
    /\ out = NoArgs

NextShifts ==
    \/ \E r \in Reviewers, row \in ShiftForms : create_shift(r, row)
    \/ \E r \in Reviewers : create_shift_insert(r)
    \/ \E r \in Reviewers, id \in 1..MaxShifts, row \in ShiftForms : update_shift(r, id, row)
    \/ \E r \in Reviewers : update_shift_write(r)
    \/ \E e \in Employees : get_employee_shift_call(e)

\* ---------------------------------------------------------------- delete_employee
\* the id of the employee's row in users: the accounts of the reviewers come first
UserOf(e) == NumReviewers + e

\* EmployeeModel.Q_CLEAR_OT_REVIEWED / Q_CLEAR_LEAVE_REVIEWED
Q_CLEAR_REVIEWED(table, id) ==
    [i \in DOMAIN table |-> IF table[i].reviewed_by = id
                            THEN [table[i] EXCEPT !.reviewed_by = NULL]
                            ELSE table[i]]

\* DELETE FROM table WHERE employee_id = %s: the other rows, in their order
RECURSIVE Q_DELETE_BY_EMPLOYEE(_, _)
Q_DELETE_BY_EMPLOYEE(table, e) ==
    IF table = <<>> THEN <<>>
    ELSE IF Head(table).employee_id = e THEN Q_DELETE_BY_EMPLOYEE(Tail(table), e)
    ELSE <<Head(table)>> \o Q_DELETE_BY_EMPLOYEE(Tail(table), e)

\* EmployeeModel.Q_DELETE: the employee's row of employees, that is its columns
Q_DELETE_EMPLOYEE(column, e) == [x \in (DOMAIN column) \ {e} |-> column[x]]

\* EmployeeController.delete_employee: eight statements, each committed on its
\* own; ok[n] says whether the n-th succeeds, and only the last result is
\* looked at.  late_considerations is named by none of them.
delete_employee(e) ==
    /\ e \in DOMAIN leave_credits
    /\ \E ok \in [1..8 -> BOOLEAN] :
          LET cleared_ot == IF ok[1] THEN Q_CLEAR_REVIEWED(overtime_requests, e)
                                     ELSE overtime_requests
              cleared_leave == IF ok[2] /\ ok[3]
                               THEN Q_CLEAR_REVIEWED(leave_requests, UserOf(e))
                               ELSE leave_requests
          IN  /\ overtime_requests' = IF ok[4] THEN Q_DELETE_BY_EMPLOYEE(cleared_ot, e)
                                               ELSE cleared_ot
              /\ leave_requests' = IF ok[5] THEN Q_DELETE_BY_EMPLOYEE(cleared_leave, e)
                                            ELSE cleared_leave
              /\ attendance' = IF ok[6] THEN Q_DELETE_BY_EMPLOYEE(attendance, e)
                                        ELSE attendance
              /\ leave_credits' = IF ok[8] THEN Q_DELETE_EMPLOYEE(leave_credits, e)
                                           ELSE leave_credits
              /\ shift_id' = IF ok[8] THEN Q_DELETE_EMPLOYEE(shift_id, e) ELSE shift_id
              /\ out' = [fn |-> "delete_employee", employee_id |-> e, ok |-> ok[8]]
    /\ UNCHANGED <<late_considerations, clock, pc, loc, ret, debited>>
    /\ UNCHANGED <<sesVars, shifts, today, now_time, args>>

\* the reviewed forms of a request
Reviewed(row, status) ==
    [row EXCEPT !.status = status, !.reviewed_by = FirstReviewer, !.reviewed_at = 1]

\* the stored requests and attendance of the employees before the deletion
InitDelete ==
    /\ leave_credits \in [Employees -> 0..MaxCredits]
    /\ leave_requests \in {<<>>} \cup
          {<<row>> : row \in {LeaveRow(e, FirstDate, FirstDate, 1) : e \in Employees}}
          \cup {<<Reviewed(row, "Approved")>> :
                   row \in {LeaveRow(e, FirstDate, FirstDate, 1) : e \in Employees}}
    /\ overtime_requests \in {<<>>} \cup
          {<<row>> : row \in {RequestRow(e, FirstDate) : e \in Employees}}
          \cup {<<Reviewed(row, "Approved")>> :
                   row \in {RequestRow(e, FirstDate) : e \in Employees}}
    /\ late_considerations \in {<<>>} \cup
          {<<row>> : row \in {RequestRow(e, FirstDate) : e \in Employees}}
    /\ clock = 1
    /\ pc = [r \in Reviewers |-> "idle"]
    /\ loc = [r \in Reviewers |-> NoLocals]
    /\ ret = NoReturn
    /\ debited = [l \in 1..MaxSubmitted |-> 0]
    /\ epc = [s \in Sessions |-> "idle"]
    /\ eloc = [s \in Sessions |-> NoSessionLocals]
    /\ attendance \in {<<>>} \cup
          {<<row>> : row \in {AttendanceRow(e, 1, HM(8, 10)) : e \in Employees}}
    /\ shifts = <<>>
    /\ shift_id = [e \in Employees |-> NULL]
    /\ today = 1
    /\ now_time = HM(8, 10)
    /\ args = NoArgs
    /\ out = NoArgs

NextDelete == \E e \in Employees : delete_employee(e)

\* ---------------------------------------------------------------- notifications
\* the employees whose requests are stored: one more than the sessions serve
Colleagues == 1..(NumEmployees + 1)

\* WHERE ... status IN ('Approved', 'Rejected')
IsReviewed_any(row) == row.status \in {"Pending", "Approved", "Rejected"}

IsReviewed(row) == row.status \in {"Approved", "Rejected"}

\* Q_SELECT_UNNOTIFIED of the three models: the ids of the employee's
\* reviewed requests that are not yet notified
Q_SELECT_UNNOTIFIED(table, e) ==
    {i \in DOMAIN table : /\ table[i].employee_id = e
                          /\ IsReviewed(table[i])
                          /\ ~table[i].employee_notified}

\* a statement that flips the flag of the employee's reviewed requests
Q_MARK_ALL_NOTIFIED_flip(table, e) ==
    [i \in DOMAIN table |->
        IF table[i].employee_id = e /\ IsReviewed(table[i])
        THEN [table[i] EXCEPT !.employee_notified = ~table[i].employee_notified]
        ELSE table[i]]

\* Q_MARK_ALL_NOTIFIED of the three models
Q_MARK_ALL_NOTIFIED(table, e) ==
    [i \in DOMAIN table |->
        IF i \in Q_SELECT_UNNOTIFIED(table, e)
        THEN [table[i] EXCEPT !.employee_notified = TRUE]
        ELSE table[i]]

\* what a notification call leaves behind: its name, its employee, its result
Called(fn, e, result) == [fn |-> fn, employee_id |-> e, result |-> result]

\* StaffDashboardController.mark_all_leaves_notified
mark_all_leaves_notified(e) ==
    /\ \E dbok \in BOOLEAN :
          /\ leave_requests' = IF dbok THEN Q_MARK_ALL_NOTIFIED(leave_requests, e)
                                       ELSE leave_requests
          /\ out' = Called("mark_all_leaves_notified", e, dbok)
    /\ UNCHANGED <<leave_credits, overtime_requests, late_considerations,
                   clock, pc, loc, ret, debited>>
    /\ UNCHANGED <<sesVars, attVars, args>>

\* StaffDashboardController.mark_all_overtime_notified
mark_all_overtime_notified(e) ==
    /\ \E dbok \in BOOLEAN :
          /\ overtime_requests' = IF dbok THEN Q_MARK_ALL_NOTIFIED(overtime_requests, e)
                                          ELSE overtime_requests
          /\ out' = Called("mark_all_overtime_notified", e, dbok)
    /\ UNCHANGED <<leave_credits, leave_requests, late_considerations,
                   clock, pc, loc, ret, debited>>
    /\ UNCHANGED <<sesVars, attVars, args>>

\* StaffDashboardController.mark_all_late_considerations_notified
mark_all_late_considerations_notified(e) ==
    /\ \E dbok \in BOOLEAN :
          /\ late_considerations' = IF dbok
                                    THEN Q_MARK_ALL_NOTIFIED(late_considerations, e)
                                    ELSE late_considerations
          /\ out' = Called("mark_all_late_considerations_notified", e, dbok)
    /\ UNCHANGED <<leave_credits, leave_requests, overtime_requests,
                   clock, pc, loc, ret, debited>>
    /\ UNCHANGED <<sesVars, attVars, args>>

\* get_unnotified_*_reviews: fetch_all hands back None when the read fails
get_unnotified_reviews(fn, table, e) ==
    /\ \E dbok \in BOOLEAN :
          out' = Called(fn, e, IF dbok THEN Q_SELECT_UNNOTIFIED(table, e) ELSE None)
    /\ UNCHANGED reqVars
    /\ UNCHANGED <<sesVars, attVars, args>>

\* the stored forms of a request: pending, reviewed, and reviewed and notified
NotifyForms(row) ==
    {row, Reviewed(row, "Approved"), Reviewed(row, "Rejected"),
     [Reviewed(row, "Approved") EXCEPT !.employee_notified = TRUE],
     [Reviewed(row, "Rejected") EXCEPT !.employee_notified = TRUE]}

\* tables of up to n requests of the colleagues
NotifyTables(rows, n) ==
    UNION {[1..k -> UNION {NotifyForms(row) : row \in rows}] : k \in 0..n}

InitNotify ==
    /\ leave_credits = [e \in Employees |-> 0]
    /\ leave_requests \in NotifyTables({LeaveRow(e, FirstDate, FirstDate, 1) :
                                            e \in Colleagues}, MaxNotify)
    /\ overtime_requests \in NotifyTables({RequestRow(e, FirstDate) : e \in Employees},
                                           MaxNotify - 1)
    /\ late_considerations \in NotifyTables({RequestRow(e, FirstDate) : e \in Employees},
                                             MaxNotify - 1)
    /\ clock = 1
    /\ pc = [r \in Reviewers |-> "idle"]
    /\ loc = [r \in Reviewers |-> NoLocals]
    /\ ret = NoReturn
    /\ debited = [l \in 1..MaxSubmitted |-> 0]
    /\ epc = [s \in Sessions |-> "idle"]
    /\ eloc = [s \in Sessions |-> NoSessionLocals]
    /\ attendance = <<>>
    /\ shifts = <<>>
    /\ shift_id = [e \in Employees |-> NULL]
    /\ today = 1
    /\ now_time = 0
    /\ args = NoArgs
    /\ out = NoArgs

NextNotify ==
    \/ \E e \in Colleagues : mark_all_leaves_notified(e)
    \/ \E e \in Employees : mark_all_overtime_notified(e)
    \/ \E e \in Employees : mark_all_late_considerations_notified(e)
    \/ \E e \in Colleagues :
          get_unnotified_reviews("get_unnotified_leave_reviews", leave_requests, e)
    \/ \E e \in Employees :
          get_unnotified_reviews("get_unnotified_overtime_reviews", overtime_requests, e)
    \/ \E e \in Employees :
          get_unnotified_reviews("get_unnotified_late_consideration_reviews",
                                 late_considerations, e)

\* shifts are deleted while another administrator edits them
NextDeleteShift ==
    \/ \E r \in Reviewers, id \in 1..MaxShifts : delete_shift(r, id)
    \/ \E r \in Reviewers : delete_shift_deactivate(r)
    \/ \E r \in Reviewers, id \in 1..MaxShifts, row \in ShiftForms : update_shift(r, id, row)
    \/ \E r \in Reviewers : update_shift_write(r)

\* -------------------------------------------------- the per-request mark
\* Q_MARK_NOTIFIED of the leave and overtime models:
\* UPDATE ... SET employee_notified = 1 WHERE id = %s
Q_MARK_NOTIFIED(table, id) ==
    [i \in DOMAIN table |->
        IF i = id THEN [table[i] EXCEPT !.employee_notified = TRUE] ELSE table[i]]

\* LeaveController.mark_as_notified
LeaveController_mark_as_notified(leave_id) ==
    /\ \E dbok \in BOOLEAN :
          /\ leave_requests' = IF dbok THEN Q_MARK_NOTIFIED(leave_requests, leave_id)
                                       ELSE leave_requests
          /\ out' = [fn |-> "LeaveController.mark_as_notified",
                     id |-> leave_id, result |-> dbok]
    /\ UNCHANGED <<leave_credits, overtime_requests, late_considerations,
                   clock, pc, loc, ret, debited>>
    /\ UNCHANGED <<sesVars, attVars, args>>

\* OvertimeController.mark_as_notified
OvertimeController_mark_as_notified(request_id) ==
    /\ \E dbok \in BOOLEAN :
          /\ overtime_requests' = IF dbok
                                  THEN Q_MARK_NOTIFIED(overtime_requests, request_id)
                                  ELSE overtime_requests
          /\ out' = [fn |-> "OvertimeController.mark_as_notified",
                     id |-> request_id, result |-> dbok]
    /\ UNCHANGED <<leave_credits, leave_requests, late_considerations,
                   clock, pc, loc, ret, debited>>
    /\ UNCHANGED <<sesVars, attVars, args>>

\* every write of the notified flag, beside the decisions of a reviewer
NextLedger ==
    \/ \E e \in Colleagues : mark_all_leaves_notified(e)
    \/ \E e \in Employees : mark_all_overtime_notified(e)
    \/ \E e \in Employees : mark_all_late_considerations_notified(e)
    \/ \E id \in 1..MaxNotify : LeaveController_mark_as_notified(id)
    \/ \E id \in 1..MaxNotify : OvertimeController_mark_as_notified(id)
    \/ \E id \in 1..MaxNotify : reject_leave(FirstReviewer, id, "NULL")
    \/ \E id \in 1..MaxNotify : approve_overtime(FirstReviewer, id, "NULL")
    \/ \E id \in 1..MaxNotify : reject_overtime(FirstReviewer, id, "NULL")
    \/ \E id \in 1..MaxNotify : approve_late_consideration(FirstReviewer, id, "NULL")
    \/ \E id \in 1..MaxNotify : reject_late_consideration(FirstReviewer, id, "NULL")

\* ------------------------------------------------------- the night shift
\* the hours of a night shift before and after midnight
EveningTimes == {HM(22, 0), HM(23, 30)}
MorningTimes == {HM(0, 30), HM(6, 0)}

\* midnight passes during the shift: date.today() is the next day
PassMidnight ==
    /\ today < MaxDay
    /\ now_time \in EveningTimes
    /\ today' = today + 1
    /\ \E t \in MorningTimes : now_time' = t
    /\ UNCHANGED reqVars
    /\ UNCHANGED <<sesVars, attendance, shifts, shift_id, fnVars>>

\* an evening on which the employees work the night shift
InitNight ==
    /\ InitNoRequests
    /\ attendance = <<>>
    /\ shifts = <<NightShift>>
    /\ shift_id = [e \in Employees |-> NULL]
    /\ today = 1
    /\ now_time \in EveningTimes
    /\ args = NoArgs
    /\ out = NoArgs

\* the night's attendance, worked from the dashboard sessions of the employee
NextNight ==
    \/ PassMidnight
    \/ \E s \in Sessions : can_check_in(s)
    \/ \E s \in Sessions : check_in_declined(s)
    \/ \E s \in Sessions : check_in(s)
    \/ \E s \in Sessions : can_check_out(s)
    \/ \E s \in Sessions : handle_logout(s)
    \/ \E s \in Sessions : check_out_read(s)
    \/ \E s \in Sessions : check_out_write(s)

\* ------------------------------------------------- the notification round
\* EmployeeDashboardView._check_notifications, one database round trip a step:
\* three reads of the unnotified reviews, the dialog, three mark-all writes.
\* A failed read shows as the empty list ("... or []").
Unnotified(dbok, table, e) == IF dbok THEN Q_SELECT_UNNOTIFIED(table, e) ELSE {}

check_notifications_read_leaves(s) ==
    /\ epc[s] = "idle"
    /\ \E dbok \in BOOLEAN :
          eloc' = [eloc EXCEPT ![s] =
                      [unnotified_leaves |-> Unnotified(dbok, leave_requests, employee_id(s)),
                       unnotified_ot |-> {},
                       unnotified_late |-> {}]]
    /\ epc' = [epc EXCEPT ![s] = "read_ot"]
    /\ UNCHANGED reqVars
    /\ UNCHANGED <<attVars, fnVars>>

check_notifications_read_ot(s) ==
    /\ epc[s] = "read_ot"
    /\ \E dbok \in BOOLEAN :
          eloc' = [eloc EXCEPT ![s].unnotified_ot =
                      Unnotified(dbok, overtime_requests, employee_id(s))]
    /\ epc' = [epc EXCEPT ![s] = "read_late"]
    /\ UNCHANGED reqVars
    /\ UNCHANGED <<attVars, fnVars>>

\* the last read; with nothing to show the handler returns, otherwise the
\* dialog opens on the three lists
check_notifications_read_late(s) ==
    /\ epc[s] = "read_late"
    /\ \E dbok \in BOOLEAN :
          LET unnotified_late == Unnotified(dbok, late_considerations, employee_id(s))
              total_unnotified == Cardinality(eloc[s].unnotified_leaves)
                                  + Cardinality(eloc[s].unnotified_ot)
                                  + Cardinality(unnotified_late)
          IN IF total_unnotified = 0
             THEN /\ epc' = [epc EXCEPT ![s] = "idle"]
                  /\ eloc' = [eloc EXCEPT ![s] = NoSessionLocals]
             ELSE /\ epc' = [epc EXCEPT ![s] = "dialog"]
                  /\ eloc' = [eloc EXCEPT ![s].unnotified_late = unnotified_late]
    /\ UNCHANGED reqVars
    /\ UNCHANGED <<attVars, fnVars>>

\* the dialog is closed and mark_all_leaves_notified runs
check_notifications_mark_leaves(s) ==
    /\ epc[s] = "dialog"
    /\ \E dbok \in BOOLEAN :
          leave_requests' = IF dbok THEN Q_MARK_ALL_NOTIFIED(leave_requests, employee_id(s))
                                    ELSE leave_requests
    /\ epc' = [epc EXCEPT ![s] = "mark_ot"]
    /\ UNCHANGED <<leave_credits, overtime_requests, late_considerations,
                   clock, pc, loc, ret, debited>>
    /\ UNCHANGED <<eloc, attVars, fnVars>>

check_notifications_mark_ot(s) ==
    /\ epc[s] = "mark_ot"
    /\ \E dbok \in BOOLEAN :
          overtime_requests' = IF dbok
                               THEN Q_MARK_ALL_NOTIFIED(overtime_requests, employee_id(s))
                               ELSE overtime_requests
    /\ epc' = [epc EXCEPT ![s] = "mark_late"]
    /\ UNCHANGED <<leave_credits, leave_requests, late_considerations,
                   clock, pc, loc, ret, debited>>
    /\ UNCHANGED <<eloc, attVars, fnVars>>

check_notifications_mark_late(s) ==
    /\ epc[s] = "mark_late"
    /\ \E dbok \in BOOLEAN :
          late_considerations' = IF dbok
                                 THEN Q_MARK_ALL_NOTIFIED(late_considerations, employee_id(s))
                                 ELSE late_considerations
    /\ epc' = [epc EXCEPT ![s] = "idle"]
    /\ eloc' = [eloc EXCEPT ![s] = NoSessionLocals]
    /\ UNCHANGED <<leave_credits, leave_requests, overtime_requests,
                   clock, pc, loc, ret, debited>>
    /\ UNCHANGED <<attVars, fnVars>>

\* one request of each type, pending or already reviewed
InitRound ==
    /\ leave_credits = [e \in Employees |-> 0]
    /\ leave_requests \in
          [1..1 -> {LeaveRow(e, FirstDate, FirstDate, 1) : e \in Employees}]
    /\ overtime_requests \in
          [1..1 -> {RequestRow(e, FirstDate) : e \in Employees}
                   \cup {Reviewed(RequestRow(e, FirstDate), "Approved") : e \in Employees}]
    /\ late_considerations \in
          [1..1 -> {RequestRow(e, FirstDate) : e \in Employees}]
    /\ clock = 1
    /\ pc = [r \in Reviewers |-> "idle"]
    /\ loc = [r \in Reviewers |-> NoLocals]
    /\ ret = NoReturn
    /\ debited = [l \in 1..MaxSubmitted |-> 0]
    /\ epc = [s \in Sessions |-> "idle"]
    /\ eloc = [s \in Sessions |-> NoSessionLocals]
    /\ attendance = <<>>
    /\ shifts = <<>>
    /\ shift_id = [e \in Employees |-> NULL]
    /\ today = 1
    /\ now_time = 0
    /\ args = NoArgs
    /\ out = NoArgs

\* dashboards running their notification round while a reviewer decides
NextRound ==
    \/ \E s \in Sessions : check_notifications_read_leaves(s)
    \/ \E s \in Sessions : check_notifications_read_ot(s)
    \/ \E s \in Sessions : check_notifications_read_late(s)
    \/ \E s \in Sessions : check_notifications_mark_leaves(s)
    \/ \E s \in Sessions : check_notifications_mark_ot(s)
    \/ \E s \in Sessions : check_notifications_mark_late(s)
    \/ \E id \in 1..MaxLeave : reject_leave(FirstReviewer, id, "NULL")
    \/ \E id \in 1..MaxOvertime : approve_overtime(FirstReviewer, id, "NULL")
    \/ \E id \in 1..MaxLate : reject_late_consideration(FirstReviewer, id, "NULL")

\* the leave workflow and the balance it draws on
NextLeave ==
    \/ Tick
    \/ \E e \in Employees, d \in Dates :
          Len(leave_requests) < MaxLeave /\ create_leave_request(e, FirstDate, d)
    \/ \E r \in Reviewers, id \in 1..MaxLeave : approve_leave_fetch_leave(r, id, "NULL")
    \/ \E r \in Reviewers : approve_leave_fetch_emp(r)
    \/ \E r \in Reviewers : approve_leave_write(r)
    \/ \E r \in Reviewers : approve_leave_deduct(r)
    \/ \E r \in Reviewers, id \in 1..MaxLeave, rem \in Remarks : reject_leave(r, id, rem)
    \/ \E e \in Employees, n \in (0 - 1)..MaxCredits : update_leave_credits(e, n)

\* the overtime and late-consideration workflows
NextRequests ==
    \/ Tick
    \/ \E e \in Employees :
          Len(overtime_requests) < MaxOvertime /\ create_overtime_request(e, FirstDate)
    \/ \E e \in Employees :
          Len(late_considerations) < MaxLate /\ create_late_consideration(e, FirstDate)
    \/ \E r \in Reviewers, id \in 1..MaxOvertime : approve_overtime(r, id, "NULL")
    \/ \E r \in Reviewers, id \in 1..MaxOvertime, rem \in Remarks :
          reject_overtime(r, id, rem)
    \/ \E r \in Reviewers, id \in 1..MaxLate : approve_late_consideration(r, id, "NULL")
    \/ \E r \in Reviewers, id \in 1..MaxLate, rem \in Remarks :
          reject_late_consideration(r, id, rem)

\* the balance every employee starts a run of the leave workflow with
InitialCredits == MaxCredits

InitConserve ==
    /\ leave_credits = [e \in Employees |-> InitialCredits]
    /\ leave_requests = <<>>
    /\ overtime_requests = <<>>
    /\ late_considerations = <<>>
    /\ clock = 1
    /\ pc = [r \in Reviewers |-> "idle"]
    /\ loc = [r \in Reviewers |-> NoLocals]
    /\ ret = NoReturn
    /\ debited = [l \in 1..MaxSubmitted |-> 0]
    /\ epc = [s \in Sessions |-> "idle"]
    /\ eloc = [s \in Sessions |-> NoSessionLocals]
    /\ attendance = <<>>
    /\ shifts = <<>>
    /\ shift_id = [e \in Employees |-> NULL]
    /\ today = 1
    /\ now_time = 0
    /\ args = NoArgs
    /\ out = NoArgs

\* the leave workflow without the HR edit of the balance
NextConserve ==
    \/ \E e \in Employees, d \in Dates :
          Len(leave_requests) < MaxLeave /\ create_leave_request(e, FirstDate, d)
    \/ \E r \in Reviewers, id \in 1..MaxLeave : approve_leave_fetch_leave(r, id, "NULL")
    \/ \E r \in Reviewers : approve_leave_fetch_emp(r)
    \/ \E r \in Reviewers : approve_leave_write(r)
    \/ \E r \in Reviewers : approve_leave_deduct(r)
    \/ \E r \in Reviewers, id \in 1..MaxLeave, rem \in Remarks : reject_leave(r, id, rem)

\* every way a leave request is stored, and its approval
NextCreate ==
    \/ \E s \in Sessions, start \in Dates, end \in Dates :
          Len(leave_requests) < MaxLeave /\ submit_leave(s, start, end)
    \/ \E e \in Employees, start \in Dates, end \in Dates :
          Len(leave_requests) < MaxLeave /\ create_leave_request(e, start, end)
    \/ \E e \in Employees, start \in Dates, end \in Dates, days \in (0 - 1)..MaxDays :
          Len(leave_requests) < MaxLeave
             /\ LeaveController_create_leave_request(e, start, end, days)
    \/ \E r \in Reviewers, id \in 1..MaxLeave : approve_leave_fetch_leave(r, id, "NULL")
    \/ \E r \in Reviewers : approve_leave_fetch_emp(r)
    \/ \E r \in Reviewers : approve_leave_write(r)
    \/ \E r \in Reviewers : approve_leave_deduct(r)

\* every operation on every request type, at one instant of the clock
NextFrame ==
    \/ \E e \in Employees, d \in Dates :
          Len(leave_requests) < MaxLeave /\ create_leave_request(e, FirstDate, d)
    \/ \E e \in Employees :
          Len(overtime_requests) < MaxOvertime /\ create_overtime_request(e, FirstDate)
    \/ \E e \in Employees :
          Len(late_considerations) < MaxLate /\ create_late_consideration(e, FirstDate)
    \/ \E r \in Reviewers, id \in 1..MaxLeave : approve_leave_fetch_leave(r, id, "NULL")
    \/ \E r \in Reviewers : approve_leave_fetch_emp(r)
    \/ \E r \in Reviewers : approve_leave_write(r)
    \/ \E r \in Reviewers : approve_leave_deduct(r)
    \/ \E r \in Reviewers, id \in 1..MaxLeave, rem \in Remarks : reject_leave(r, id, rem)
    \/ \E r \in Reviewers, id \in 1..MaxOvertime : approve_overtime(r, id, "NULL")
    \/ \E r \in Reviewers, id \in 1..MaxOvertime, rem \in Remarks :
          reject_overtime(r, id, rem)
    \/ \E r \in Reviewers, id \in 1..MaxLate : approve_late_consideration(r, id, "NULL")
    \/ \E r \in Reviewers, id \in 1..MaxLate, rem \in Remarks :
          reject_late_consideration(r, id, rem)
    \/ \E e \in Employees, n \in (0 - 1)..MaxCredits : update_leave_credits(e, n)

\* the leave submit path of the employee dashboard and the reviews of what it stored
NextSubmitLeave ==
    \/ \E s \in Sessions, d1 \in Dates, d2 \in Dates : submit_leave(s, d1, d2)
    \/ \E r \in Reviewers, id \in 1..MaxSubmitted : approve_leave_fetch_leave(r, id, "NULL")
    \/ \E r \in Reviewers : approve_leave_fetch_emp(r)
    \/ \E r \in Reviewers : approve_leave_write(r)
    \/ \E r \in Reviewers : approve_leave_deduct(r)
    \/ \E r \in Reviewers, id \in 1..MaxSubmitted : reject_leave(r, id, "NULL")

\* the overtime and late-consideration submit paths and the reviews of what
\* they stored, all reviews made from one reviewer session
NextSubmitRequests ==
    \/ \E s \in Sessions, d \in Dates : submit_overtime_has_pending(s, d)
    \/ \E s \in Sessions : submit_overtime_get_approved(s)
    \/ \E s \in Sessions : submit_overtime_create(s)
    \/ \E s \in Sessions, d \in Dates : show_request_late_consideration_dialog(s, d)
    \/ \E s \in Sessions : submit_consideration(s)
    \/ \E s \in Sessions : late_dialog_reject(s)
    \/ \E r \in {FirstReviewer}, id \in 1..MaxSubmitted : approve_overtime(r, id, "NULL")
    \/ \E r \in {FirstReviewer}, id \in 1..MaxSubmitted : reject_overtime(r, id, "NULL")
    \/ \E r \in {FirstReviewer}, id \in 1..MaxSubmitted :
          approve_late_consideration(r, id, "NULL")
    \/ \E r \in {FirstReviewer}, id \in 1..MaxSubmitted :
          reject_late_consideration(r, id, "NULL")

Next == NextLeave \/ NextRequests

Spec == Init /\ [][Next]_vars
SpecLeave == Init /\ [][NextLeave]_vars
SpecRequests == Init /\ [][NextRequests]_vars
SpecFrame == Init /\ [][NextFrame]_vars
SpecSubmitLeave == Init /\ [][NextSubmitLeave]_vars
SpecSubmitRequests == Init /\ [][NextSubmitRequests]_vars
SpecAttendance == InitAttendance /\ [][NextAttendance]_vars
SpecCheckIn == InitAttendance /\ [][NextCheckIn]_vars
SpecGuards == InitGuards /\ [][NextGuards]_vars
SpecStatus == InitStatus /\ [][NextStatus]_vars
SpecPaidHours == InitPaidHours /\ [][NextPaidHours]_vars
SpecShifts == InitShifts /\ [][NextShifts]_vars
SpecDelete == InitDelete /\ [][NextDelete]_vars
SpecDeleteShift == InitShifts /\ [][NextDeleteShift]_vars
SpecNotify == InitNotify /\ [][NextNotify]_vars
SpecCreate == Init /\ [][NextCreate]_vars
SpecConserve == InitConserve /\ [][NextConserve]_vars
SpecLedger == InitRound /\ [][NextLedger]_vars
SpecNight == InitNight /\ [][NextNight]_vars
SpecRound == InitRound /\ [][NextRound]_vars

\* ================================================================ claims
Terminal == {"Approved", "Rejected"}
ApprovedOk == Return(TRUE, "Leave request approved successfully.")

\* C1: leave credits are debited exactly once per approved leave request:
\* however many approve calls are made on a request id, the balance is
\* reduced by its days_count one time only.
C1_DebitedOncePerRequest ==
    \A id \in 1..MaxLeave : debited[id] <= 1

\* C2: when two reviewers run approve_leave on the same leave request with
\* their steps interleaved, at most one of them gets past the approve write
\* (and so at most one goes on to debit and to return success).
C2_AtMostOneRacerWins ==
    \A r \in Reviewers, q \in Reviewers :
        (r # q /\ pc[r] = "deduct" /\ pc[q] = "deduct")
            => loc[r].leave_id # loc[q].leave_id

\* C3: Approved and Rejected are terminal for leave, overtime and
\* late-consideration requests: no step changes the status of a request
\* that is Approved or Rejected.
C3_TerminalStatus ==
    [][/\ \A id \in DOMAIN leave_requests :
             leave_requests[id].status \in Terminal
                => leave_requests'[id].status = leave_requests[id].status
       /\ \A id \in DOMAIN overtime_requests :
             overtime_requests[id].status \in Terminal
                => overtime_requests'[id].status = overtime_requests[id].status
       /\ \A id \in DOMAIN late_considerations :
             late_considerations[id].status \in Terminal
                => late_considerations'[id].status = late_considerations[id].status]_vars

\* C4: every approve or reject call made on a request that is already
\* Approved or Rejected returns failure, for leave, overtime and
\* late-consideration alike; it never returns success.
C4_NonPendingFails ==
    [][/\ \A r \in Reviewers, id \in 1..MaxOvertime, rem \in Remarks :
             ((approve_overtime(r, id, rem) \/ reject_overtime(r, id, rem))
                 /\ StatusOf(overtime_requests, id) \in Terminal) => ~ret'.ok
       /\ \A r \in Reviewers, id \in 1..MaxLate, rem \in Remarks :
             ((approve_late_consideration(r, id, rem)
                  \/ reject_late_consideration(r, id, rem))
                 /\ StatusOf(late_considerations, id) \in Terminal) => ~ret'.ok
       /\ \A r \in Reviewers, id \in 1..MaxLeave, rem \in Remarks :
             (reject_leave(r, id, rem)
                 /\ StatusOf(leave_requests, id) \in Terminal) => ~ret'.ok
       /\ \A r \in Reviewers :
             (approve_leave_write(r)
                 /\ StatusOf(leave_requests, loc[r].leave_id) \in Terminal)
                => (pc'[r] = "idle" /\ ~ret'.ok)]_vars

\* C5: every employee's leave_credits is >= 0 in every reachable state.
C5_CreditsNonNegative ==
    \A e \in Employees : leave_credits[e] >= 0

C7_DebitedOnlyIfApproved ==
    \A id \in DOMAIN leave_requests :
        debited[id] > 0 => leave_requests[id].status = "Approved"

\* C8: when the approve write of approve_leave has succeeded and the debit
\* write fails, the call does not return the plain success outcome.
C8_DebitFailureSurfaced ==
    [][\A r \in Reviewers :
          (approve_leave_deduct(r) /\ debited' = debited) => ret' # ApprovedOk]_vars

\* C9: the reviewer identity, decision timestamp and remarks stored by the
\* first successful approve or reject of a request are never overwritten,
\* for leave, overtime and late-consideration requests.
C9_ReviewWrittenOnce ==
    [][/\ \A id \in DOMAIN leave_requests :
             leave_requests[id].status \in Terminal
                => /\ leave_requests'[id].reviewed_by = leave_requests[id].reviewed_by
                   /\ leave_requests'[id].reviewed_at = leave_requests[id].reviewed_at
                   /\ leave_requests'[id].remarks = leave_requests[id].remarks
       /\ \A id \in DOMAIN overtime_requests :
             overtime_requests[id].status \in Terminal
                => /\ overtime_requests'[id].reviewed_by = overtime_requests[id].reviewed_by
                   /\ overtime_requests'[id].reviewed_at = overtime_requests[id].reviewed_at
                   /\ overtime_requests'[id].remarks = overtime_requests[id].remarks
       /\ \A id \in DOMAIN late_considerations :
             late_considerations[id].status \in Terminal
                => /\ late_considerations'[id].reviewed_by = late_considerations[id].reviewed_by
                   /\ late_considerations'[id].reviewed_at = late_considerations[id].reviewed_at
                   /\ late_considerations'[id].remarks = late_considerations[id].remarks]_vars

\* C10: only leave approval touches the balance: a step that changes any
\* employee's leave_credits is the debit step of approve_leave (or the HR
\* credit edit); no submit, no reject and no overtime or late-consideration
\* approve changes it.
C10_OnlyLeaveApprovalTouchesBalance ==
    [][leave_credits' # leave_credits
          => /\ \/ \E r \in Reviewers : approve_leave_deduct(r)
                \/ \E e \in Employees, n \in 0..MaxCredits : update_leave_credits(e, n)
             /\ leave_requests' = leave_requests
             /\ overtime_requests' = overtime_requests
             /\ late_considerations' = late_considerations]_vars

C10_Witness ==
    /\ \E id \in DOMAIN leave_requests : leave_requests[id].status = "Rejected"
    /\ \E id \in DOMAIN overtime_requests : overtime_requests[id].status = "Approved"
    /\ \E id \in DOMAIN late_considerations : late_considerations[id].status = "Rejected"
    /\ \A id \in 1..MaxLeave : debited[id] = 0

\* C11: in every reachable state there is at most one Pending request per
\* (employee, date, request type): leave keyed by its start/end pair,
\* overtime by its request date, late-consideration by its attendance date.
C11_OnePendingPerKey ==
    /\ \A i \in DOMAIN leave_requests, j \in DOMAIN leave_requests :
          (/\ i # j
           /\ leave_requests[i].status = "Pending"
           /\ leave_requests[j].status = "Pending"
           /\ leave_requests[i].employee_id = leave_requests[j].employee_id)
             => <<leave_requests[i].start_date, leave_requests[i].end_date>>
                  # <<leave_requests[j].start_date, leave_requests[j].end_date>>
    /\ \A e \in Employees, d \in Dates :
          /\ Q_HAS_PENDING(overtime_requests, e, d) <= 1
          /\ Q_HAS_PENDING(late_considerations, e, d) <= 1

\* C12: a submission made while a Pending request of the same type exists
\* for the same employee and date inserts nothing and is reported as a
\* failure, on the overtime submit path and on the late-consideration submit
\* path, also when that Pending request was stored after the dialog opened.
C12_DuplicateRejected ==
    [][\A s \in Sessions :
          /\ (submit_overtime_create(s)
                 /\ Q_HAS_PENDING(overtime_requests, employee_id(s), eloc[s].date) > 0)
                => (overtime_requests' = overtime_requests /\ ~ret'.ok)
          /\ (submit_consideration(s)
                 /\ Q_HAS_PENDING(late_considerations, employee_id(s), eloc[s].date) > 0)
                => (late_considerations' = late_considerations /\ ~ret'.ok)]_vars

\* ---------------------------------------------------------------- attendance claims
\* the state of the attendance state machine a row is in
RecordState(row) ==
    IF row.time_out # None THEN "CheckedOut"
    ELSE IF row.lunch_start = None THEN "CheckedIn"
    ELSE IF row.lunch_end = None THEN "OnLunch"
    ELSE "LunchDone"

\* C13: at most one attendance record exists per (employee, calendar date) in
\* every reachable state, also when can_check_in is evaluated twice before
\* either check_in write is issued.
C13_OneRecordPerDay ==
    \A e \in Employees, d \in 1..MaxDay :
        Cardinality(RowsOf(attendance, e, d)) <= 1

\* C14: an attendance record is terminal once time-out is set: no later
\* operation (start lunch, end lunch, a second check-out, a second check-in)
\* changes any field of it; in particular end-lunch is refused on a record
\* that was checked out while lunch was still open.
C14_CheckedOutIsTerminal ==
    [][\A i \in DOMAIN attendance :
          attendance[i].time_out # None => attendance'[i] = attendance[i]]_vars

\* C15: a record only moves CheckedIn -> OnLunch, OnLunch -> LunchDone,
\* CheckedIn -> CheckedOut and LunchDone -> CheckedOut (a new record starts
\* CheckedIn): check-out is never accepted while the record is OnLunch, from
\* the check-out button or from check-out-and-logout.
C15_AttendanceTransitions ==
    [][/\ \A i \in DOMAIN attendance :
             \/ RecordState(attendance'[i]) = RecordState(attendance[i])
             \/ <<RecordState(attendance[i]), RecordState(attendance'[i])>> \in
                   {<<"CheckedIn", "OnLunch">>, <<"OnLunch", "LunchDone">>,
                    <<"CheckedIn", "CheckedOut">>, <<"LunchDone", "CheckedOut">>}
       /\ \A i \in DOMAIN attendance' :
             i \notin DOMAIN attendance => RecordState(attendance'[i]) = "CheckedIn"]_vars

\* the record a check-in is to create, but for its status
FreshRecord(row, e) ==
    /\ row.employee_id = e
    /\ row.date = today
    /\ row.time_in = now_time
    /\ row.time_out = None
    /\ row.lunch_start = None
    /\ row.lunch_end = None
    /\ row.total_time = None
    /\ row.lunch_duration = None
    /\ row.paid_hours = None
    /\ row.overtime_hours = None

\* C17 as stated: a successful check-in creates a record for (employee,
\* today) whose time-in is the current time, whose status is unset (NULL),
\* and whose lunch-start, lunch-end, time-out and four hour fields are unset.
C17_CheckInStatusUnset ==
    [][\A s \in Sessions :
          (check_in(s) /\ ret'.ok)
             => /\ Len(attendance') = Len(attendance) + 1
                /\ FreshRecord(attendance'[Len(attendance')], employee_id(s))
                /\ attendance'[Len(attendance')].status = "NULL"]_vars

\* C17 as amended: a successful check-in appends exactly one record for
\* (employee, today) whose time-in is the current time, whose status is the
\* placeholder 'Incomplete' (none of the four verdict labels), and whose
\* lunch-start, lunch-end, time-out and four hour fields are unset; every
\* record already stored is left as it was.
C17_CheckInRecord ==
    [][\A s \in Sessions :
          (check_in(s) /\ ret'.ok)
             => /\ Len(attendance') = Len(attendance) + 1
                /\ FreshRecord(attendance'[Len(attendance')], employee_id(s))
                /\ attendance'[Len(attendance')].status = "Incomplete"
                /\ attendance'[Len(attendance')].status \notin StatusLabels
                /\ \A i \in DOMAIN attendance : attendance'[i] = attendance[i]]_vars

C17_Witness ==
    /\ ret = Return(TRUE, "Check In Successful")
    /\ \E i \in DOMAIN attendance :
          /\ attendance[i].date = today
          /\ attendance[i].time_in = now_time
          /\ attendance[i].status = "Incomplete"
          /\ attendance[i].time_out = None

\* the start time and grace period the resolved shift is configured with
\* (08:00 and 15 minutes when no shift resolves)
ConfiguredStart(shift) == IF shift = NoShift THEN HM(8, 0) ELSE shift.start_time
ConfiguredGrace(shift) == IF shift = NoShift THEN 15 ELSE shift.grace_period_mins

\* C19: a successful check-out sets, in one update, time-out together with
\* total-time, lunch-duration, paid-hours, overtime-hours and status; the
\* hour fields equal compute_paid_hours of the stored time-in, lunch-start,
\* lunch-end and the new time-out, and status equals determine_status of
\* time-in, paid-hours and the resolved shift's start and grace period; so a
\* record has time-out set if and only if its status is one of the four labels.
C19_CheckOutUpdate ==
    [][/\ \A s \in Sessions :
             (check_out_write(s) /\ ret'.ok)
                => \A i \in RowsOf(attendance, employee_id(s), eloc[s].date) :
                      LET old == attendance[i]
                          new == attendance'[i]
                          shift == get_employee_shift(employee_id(s))
                          h == compute_paid_hours(old.time_in, new.time_out,
                                                  old.lunch_start, old.lunch_end)
                      IN  /\ new.time_out # None
                          /\ new.total_time = h.total_time
                          /\ new.lunch_duration = h.lunch_duration
                          /\ new.paid_hours = h.paid_hours
                          /\ new.overtime_hours # None
                          /\ new.status = determine_status(old.time_in, h.paid_hours,
                                              ConfiguredStart(shift),
                                              ConfiguredGrace(shift))
       /\ \A i \in DOMAIN attendance' :
             (attendance'[i].time_out # None) <=> (attendance'[i].status \in StatusLabels)]_vars

\* the hours before lunch the resolved shift is configured with (3 when no
\* shift resolves)
ConfiguredMinHours(shift) ==
    IF shift = NoShift THEN 3 ELSE shift.min_hours_before_lunch

\* C16: can_check_in allows check-in exactly when today is not Sunday, no
\* record exists for (employee, today), and either no shift resolves, or for
\* a day shift (start < end) now <= end, or for a wraparound shift
\* (start > end) now is not strictly between end and start; the Sunday
\* refusal comes from can_check_in only, never from a lunch or check-out guard.
C16_CanCheckInExactly ==
    [][\A s \in Sessions :
          /\ can_check_in(s)
                => (ret'.ok <=>
                      /\ Weekday(today) # 6
                      /\ RowsOf(attendance, employee_id(s), today) = {}
                      /\ LET shift == get_employee_shift(employee_id(s))
                         IN  \/ shift = NoShift
                             \/ /\ shift # NoShift
                                /\ shift.start_time < shift.end_time
                                /\ now_time <= shift.end_time
                             \/ /\ shift # NoShift
                                /\ shift.start_time > shift.end_time
                                /\ ~(shift.end_time < now_time
                                       /\ now_time < shift.start_time))
          /\ (can_start_lunch(s) \/ can_end_lunch(s) \/ can_check_out(s))
                => ret'.msg # "Sunday - No Work Day"]_vars

\* C18: can_start_lunch allows the transition exactly when today's record
\* exists with time-in set, lunch-start unset and time-out unset and the time
\* since time-in is at least the shift's minimum hours before lunch;
\* otherwise it returns a not-allowed outcome (when too early, with the
\* remaining whole minutes) and the record is unchanged.
C18_CanStartLunchExactly ==
    [][\A s \in Sessions :
          can_start_lunch(s)
             => LET rows == RowsOf(attendance, employee_id(s), today)
                    threshold == ConfiguredMinHours(get_employee_shift(employee_id(s))) * 3600
                    open(i) == /\ attendance[i].time_in # None
                               /\ attendance[i].lunch_start = None
                               /\ attendance[i].time_out = None
                IN  /\ ret'.ok <=> \E i \in rows :
                                      /\ open(i)
                                      /\ now_time - attendance[i].time_in >= threshold
                    /\ attendance' = attendance
                    /\ \A i \in rows :
                          (open(i) /\ now_time - attendance[i].time_in < threshold)
                             => /\ ret'.msg = "Cannot Start Lunch Yet"
                                /\ ret'.mins_left =
                                      (threshold - (now_time - attendance[i].time_in)) \div 60]_vars

\* C20: for every time-of-day timeIn, every shiftStart and every grace period
\* in whole minutes >= 0, determine_status says Late exactly when timeIn is
\* later than shiftStart + grace and On Time otherwise, also when
\* shiftStart + grace passes midnight.
C20_LateExactly ==
    (out # NoArgs)
       => ((out.status \in {"Late, Complete", "Late, Undertime"})
              <=> (args.time_in > args.shift_start_time + (args.grace_period_mins * 60)))

\* the two words of a status label
PunctualityWord(status) ==
    IF status \in {"Late, Complete", "Late, Undertime"} THEN "Late" ELSE "On Time"

CompletenessWord(status) ==
    IF status \in {"Late, Complete", "On Time, Complete"} THEN "Complete" ELSE "Undertime"

\* C21: determine_status is a function of its arguments whose two axes are
\* independent: for the time-in, shift start and grace of the call the
\* punctuality word is the same for every paid-hours value, and for the paid
\* hours of the call the completeness word is Complete iff paid hours >= 8 and
\* is the same for every time-in, shift start and grace.
C21_AxesIndependent ==
    out.fn = "determine_status"
       => /\ out.status \in StatusLabels
          /\ \A a \in StatusArgs :
                (/\ a.time_in = args.time_in
                 /\ a.shift_start_time = args.shift_start_time
                 /\ a.grace_period_mins = args.grace_period_mins)
                   => PunctualityWord(determine_status(a.time_in, a.paid_hours,
                                         a.shift_start_time, a.grace_period_mins))
                         = PunctualityWord(out.status)
          /\ CompletenessWord(out.status)
                = IF args.paid_hours >= 800 THEN "Complete" ELSE "Undertime"
          /\ \A a \in StatusArgs :
                a.paid_hours = args.paid_hours
                   => CompletenessWord(determine_status(a.time_in, a.paid_hours,
                                          a.shift_start_time, a.grace_period_mins))
                         = CompletenessWord(out.status)

\* a late arrival that worked the full hours
C21_Witness ==
    /\ out.fn = "determine_status"
    /\ out.status = "Late, Complete"
    /\ args.paid_hours > 800

\* C22: for second-granular times with time-in <= lunch-start <= lunch-end
\* <= time-out, the three values compute_paid_hours returns (each rounded to
\* two decimals) satisfy paid_hours = total_time - lunch_duration exactly and
\* paid_hours >= 0.
C22_PaidIsTotalMinusLunch ==
    (/\ out.fn = "compute_paid_hours"
     /\ args.time_in # None /\ args.lunch_start # None
     /\ args.lunch_end # None /\ args.time_out # None
     /\ args.time_in <= args.lunch_start
     /\ args.lunch_start <= args.lunch_end
     /\ args.lunch_end <= args.time_out)
       => /\ out.result.paid_hours = out.result.total_time - out.result.lunch_duration
          /\ out.result.paid_hours >= 0

\* C23: compute_paid_hours returns lunch_duration = 0, so paid_hours =
\* total_time, whenever lunch-start or lunch-end is absent, and returns three
\* zeros whenever time-in or time-out is absent; paid hours fall below the
\* total only when both lunch bounds are present.
C23_AbsentTimes ==
    out.fn = "compute_paid_hours"
       => /\ (args.time_in = None \/ args.time_out = None)
                => /\ out.result.total_time = 0
                   /\ out.result.lunch_duration = 0
                   /\ out.result.paid_hours = 0
          /\ (args.lunch_start = None \/ args.lunch_end = None)
                => /\ out.result.lunch_duration = 0
                   /\ out.result.paid_hours = out.result.total_time
          /\ (out.result.paid_hours < out.result.total_time)
                => (args.lunch_start # None /\ args.lunch_end # None)

\* a day of nine hours without a recorded lunch
C23_Witness ==
    /\ out.fn = "compute_paid_hours"
    /\ args.time_in = HM(8, 0)
    /\ args.time_out = HM(17, 0)
    /\ args.lunch_start = None
    /\ out.result.lunch_duration = 0
    /\ out.result.paid_hours = 900

\* C24: on every checked-out record overtime_hours = max(0, paid_hours - 8)
\* at two decimals; so overtime_hours >= 0, overtime_hours > 0 only if the
\* completeness word of the status is Complete, and a record whose
\* completeness word is Undertime has overtime_hours = 0.
C24_OvertimeExactly ==
    \A i \in DOMAIN attendance :
       attendance[i].time_out # None
          => /\ attendance[i].overtime_hours
                   = (IF attendance[i].paid_hours - 800 > 0
                      THEN attendance[i].paid_hours - 800 ELSE 0)
             /\ attendance[i].overtime_hours >= 0
             /\ (attendance[i].overtime_hours > 0)
                   => CompletenessWord(attendance[i].status) = "Complete"
             /\ (attendance[i].status \in {"Late, Undertime", "On Time, Undertime"})
                   => attendance[i].overtime_hours = 0

\* a record checked out with overtime and another checked out short of hours
C24_Witness ==
    /\ \E i \in DOMAIN attendance :
          /\ attendance[i].time_out # None
          /\ attendance[i].overtime_hours > 0
          /\ CompletenessWord(attendance[i].status) = "Complete"
    /\ \E i \in DOMAIN attendance :
          /\ attendance[i].time_out # None
          /\ attendance[i].paid_hours < 800
          /\ attendance[i].overtime_hours = 0

\* C25: the shift resolver returns the employee's assigned shift if that
\* shift is active; else the active shift flagged is_default; else some
\* active shift; else absent.  It never returns an inactive shift, and it
\* returns absent only when no active shift exists.
C25_ResolverOrder ==
    [][\A e \in Employees :
          get_employee_shift_call(e)
             => LET own == {i \in DOMAIN shifts : i = shift_id[e] /\ shifts[i].is_active}
                    default == {i \in DOMAIN shifts :
                                   shifts[i].is_default /\ shifts[i].is_active}
                    active == {i \in DOMAIN shifts : shifts[i].is_active}
                    found == out'.shift
                IN  /\ (own # {}) => found = shifts[shift_id[e]]
                    /\ (own = {} /\ default # {}) => found \in {shifts[i] : i \in default}
                    /\ (own = {} /\ default = {} /\ active # {})
                          => found \in {shifts[i] : i \in active}
                    /\ (active = {}) => found = NoShift
                    /\ (found # NoShift) => found.is_active
                    /\ (found = NoShift) => active = {}]_vars

\* C26: at most one shift holds is_default at any time, after any sequence
\* and any interleaving of create_shift and update_shift calls.
C26_OneDefault ==
    Cardinality({i \in DOMAIN shifts : shifts[i].is_default}) <= 1

\* the employee owns a row of the table
Owns(table, e) == \E i \in DOMAIN table : table[i].employee_id = e

\* C27: after delete_employee reports success for an employee, no attendance
\* record, leave request, overtime request or late-consideration request
\* references that employee as its owner; and if delete_employee reports
\* failure, none of the employee's records has been deleted.
C27_DeleteCascades ==
    [][\A e \in Employees :
          delete_employee(e)
             => /\ out'.ok
                      => /\ ~Owns(attendance', e)
                         /\ ~Owns(leave_requests', e)
                         /\ ~Owns(overtime_requests', e)
                         /\ ~Owns(late_considerations', e)
                /\ ~out'.ok
                      => /\ Owns(attendance, e) => Owns(attendance', e)
                         /\ Owns(leave_requests, e) => Owns(leave_requests', e)
                         /\ Owns(overtime_requests, e) => Owns(overtime_requests', e)
                         /\ Owns(late_considerations, e)
                               => Owns(late_considerations', e)]_vars

\* C28: a store failure aborts the workflow with no write, and a failed read
\* is never taken for 'no record exists': while a record for (employee,
\* today) is stored, can_check_in does not allow check-in, whether its read
\* of the record succeeds (the record is seen) or fails (the guard aborts).
C28_FailedReadAborts ==
    [][\A s \in Sessions :
          (can_check_in(s) /\ RowsOf(attendance, employee_id(s), today) # {})
             => /\ ~ret'.ok
                /\ epc'[s] = "idle"]_vars

\* a successful mark-all call for the employee leaves none of the employee's
\* reviewed requests unnotified, and changes nothing when the step before it
\* was the same successful call
MarkedOnce(fn, e, before, after) ==
    /\ Q_SELECT_UNNOTIFIED(after, e) = {}
    /\ (out = Called(fn, e, TRUE)) => after = before

\* C29: mark_all_notified is idempotent for each of the three request types:
\* called again right after a successful call for the same employee it leaves
\* the store as the first call left it, and after a successful call the
\* unnotified-reviews query for that employee returns the empty list.
C29_MarkAllIdempotent ==
    [][\A e \in Colleagues :
          /\ (mark_all_leaves_notified(e) /\ out'.result)
                => MarkedOnce("mark_all_leaves_notified", e,
                              leave_requests, leave_requests')
          /\ (mark_all_overtime_notified(e) /\ out'.result)
                => MarkedOnce("mark_all_overtime_notified", e,
                              overtime_requests, overtime_requests')
          /\ (mark_all_late_considerations_notified(e) /\ out'.result)
                => MarkedOnce("mark_all_late_considerations_notified", e,
                              late_considerations, late_considerations')]_vars

\* the employee's reviews are marked while a pending request is stored
C29_Witness ==
    /\ out = Called("mark_all_leaves_notified", 1, TRUE)
    /\ \E i \in DOMAIN leave_requests :
          /\ leave_requests[i].employee_id = 1
          /\ leave_requests[i].status = "Approved"
          /\ leave_requests[i].employee_notified
    /\ \E i \in DOMAIN leave_requests : leave_requests[i].status = "Pending"

\* the flag is set on the employee's Approved and Rejected requests when the
\* call succeeds, and every other flag and every other field is as before
MarkedExactly(e, result, before, after) ==
    /\ Len(after) = Len(before)
    /\ \A i \in DOMAIN before :
          /\ [after[i] EXCEPT !.employee_notified = before[i].employee_notified]
                = before[i]
          /\ after[i].employee_notified
                = (\/ before[i].employee_notified
                   \/ /\ result
                      /\ before[i].employee_id = e
                      /\ before[i].status \in {"Approved", "Rejected"})

\* C30: mark_all_notified(employee) sets the notified flag on exactly that
\* employee's requests whose status is Approved or Rejected and whose flag is
\* false; it leaves unchanged the flag of every Pending request, every
\* request of every other employee, and every other field of every request.
C30_MarkAllFrame ==
    [][\A e \in Colleagues :
          /\ mark_all_leaves_notified(e)
                => /\ MarkedExactly(e, out'.result, leave_requests, leave_requests')
                   /\ UNCHANGED <<overtime_requests, late_considerations>>
          /\ mark_all_overtime_notified(e)
                => /\ MarkedExactly(e, out'.result, overtime_requests, overtime_requests')
                   /\ UNCHANGED <<leave_requests, late_considerations>>
          /\ mark_all_late_considerations_notified(e)
                => /\ MarkedExactly(e, out'.result, late_considerations,
                                    late_considerations')
                   /\ UNCHANGED <<leave_requests, overtime_requests>>]_vars

\* the employee's review is marked beside a colleague's review that is not
C30_Witness ==
    /\ out = Called("mark_all_leaves_notified", 1, TRUE)
    /\ \E i \in DOMAIN leave_requests :
          /\ leave_requests[i].employee_id = 1
          /\ leave_requests[i].status = "Rejected"
          /\ leave_requests[i].employee_notified
    /\ \E i \in DOMAIN leave_requests :
          /\ leave_requests[i].employee_id = 2
          /\ leave_requests[i].status = "Approved"
          /\ ~leave_requests[i].employee_notified

\* the requests whose notified flag a step sets
NewlyMarked(old, new) ==
    {i \in DOMAIN old : ~old[i].employee_notified /\ new[i].employee_notified}

\* the sessions whose dialog has been shown and whose writes are not finished
Showing == {s \in Sessions : epc[s] \in {"dialog", "mark_ot", "mark_late"}}

\* C31: every reviewed request is shown to its requester in exactly one
\* notification round: a mark-all write of a round sets the flag only of
\* requests that were in the list the round read and displayed, even when a
\* reviewer decides between the read and the write, and no request is in the
\* lists displayed by two rounds.
C31_ShownExactlyOnce ==
    [][\A s \in Sessions :
          /\ check_notifications_mark_leaves(s)
                => NewlyMarked(leave_requests, leave_requests')
                      \subseteq eloc[s].unnotified_leaves
          /\ check_notifications_mark_ot(s)
                => NewlyMarked(overtime_requests, overtime_requests')
                      \subseteq eloc[s].unnotified_ot
          /\ check_notifications_mark_late(s)
                => NewlyMarked(late_considerations, late_considerations')
                      \subseteq eloc[s].unnotified_late
          /\ (check_notifications_read_late(s) /\ epc'[s] = "dialog")
                => \A s2 \in Showing \ {s} :
                      /\ eloc'[s].unnotified_leaves \cap eloc[s2].unnotified_leaves = {}
                      /\ eloc'[s].unnotified_ot \cap eloc[s2].unnotified_ot = {}
                      /\ eloc'[s].unnotified_late \cap eloc[s2].unnotified_late = {}]_vars

\* the records of an employee that carry a time-in and no time-out
OpenRecords(e) ==
    {i \in DOMAIN attendance : /\ attendance[i].employee_id = e
                               /\ Truthy(attendance[i].time_in)
                               /\ ~Truthy(attendance[i].time_out)}

\* C32: an employee who checked in before midnight on the night shift can
\* check out after midnight: while the employee has an open record, a
\* check-out whose read succeeds finds it and is allowed, it does not report
\* that the employee has not checked in.
C32_CheckOutAfterMidnight ==
    \A s \in Sessions :
       OpenRecords(employee_id(s)) # {}
          => can_check_out_result(get_today_record(TRUE, employee_id(s))).ok

\* the four timestamps of a record, in the order of the day
Timestamps(row) == <<row.time_in, row.lunch_start, row.lunch_end, row.time_out>>

\* each timestamp that is set rests on the ones it needs, and those that are
\* set are in the order of the day
InOrder(row) ==
    LET ts == Timestamps(row)
    IN  /\ row.lunch_end # None => row.lunch_start # None
        /\ (row.lunch_start # None \/ row.time_out # None) => row.time_in # None
        /\ \A i \in 1..4, j \in 1..4 :
              (i < j /\ ts[i] # None /\ ts[j] # None) => ts[i] <= ts[j]

\* C33: the timestamps of a record are populated progressively and in order:
\* lunch-end only with lunch-start, lunch-start or time-out only with time-in,
\* time-in <= lunch-start <= lunch-end <= time-out for those that are set; and
\* a timestamp once set is never overwritten.
C33_TimestampsInOrder ==
    [][/\ \A i \in DOMAIN attendance' : InOrder(attendance'[i])
       /\ \A i \in DOMAIN attendance :
             \A k \in 1..4 :
                Timestamps(attendance[i])[k] # None
                   => Timestamps(attendance'[i])[k] = Timestamps(attendance[i])[k]]_vars

\* the notified flags of a table after a step: set only on reviewed requests,
\* and still set where they were
FlagSound(old, new) ==
    /\ \A i \in DOMAIN new : new[i].employee_notified => IsReviewed(new[i])
    /\ \A i \in DOMAIN old : old[i].employee_notified => new[i].employee_notified

\* C34: a request whose notified flag is true has status Approved or
\* Rejected: a Pending request is never marked, neither by mark_all_notified
\* nor by the per-request mark_as_notified; and a flag that is true never
\* returns to false.
C34_OnlyReviewedMarked ==
    [][/\ FlagSound(leave_requests, leave_requests')
       /\ FlagSound(overtime_requests, overtime_requests')
       /\ FlagSound(late_considerations, late_considerations')]_vars

\* the days of the requests ids, summed
RECURSIVE SumDays(_)
SumDays(ids) ==
    IF ids = {} THEN 0
    ELSE LET id == CHOOSE x \in ids : TRUE
         IN  leave_requests[id].days_count + SumDays(ids \ {id})

\* the Approved leave requests of an employee
ApprovedOf(e) ==
    {id \in DOMAIN leave_requests : /\ leave_requests[id].employee_id = e
                                    /\ leave_requests[id].status = "Approved"}

\* C35: credit conservation: while no approve_leave call is in progress (and
\* no HR edit of the balance has occurred), the credits an employee started
\* with less the current credits equal the sum of days_count over that
\* employee's Approved leave requests.
C35_CreditConservation ==
    (\A r \in Reviewers : pc[r] = "idle")
       => \A e \in Employees :
             InitialCredits - leave_credits[e] = SumDays(ApprovedOf(e))

\* C36: the values the resolved shift is configured with are the ones applied,
\* for every value including 0: the status a check-out computes uses the
\* shift's start time and grace period, and can_start_lunch refuses as too
\* early only before the shift's minimum hours have passed; the defaults
\* (08:00, 15 minutes, 3 hours) apply only when no shift resolves.
C36_ConfiguredValuesApplied ==
    [][\A s \in Sessions :
          LET today_record == get_today_record(TRUE, employee_id(s))
              shift == get_employee_shift(employee_id(s))
          IN  /\ (check_out_read(s) /\ epc'[s] = "check_out_write")
                    => eloc'[s].params.status =
                          determine_status(today_record.time_in,
                                           eloc'[s].params.paid_hours,
                                           ConfiguredStart(shift), ConfiguredGrace(shift))
              /\ (can_start_lunch(s) /\ ret'.msg = "Cannot Start Lunch Yet")
                    => now_time < today_record.time_in
                                     + (ConfiguredMinHours(shift) * 3600)]_vars

\* the employees assigned to a shift
AssignedTo(id) == {e \in Employees : shift_id[e] = id}

\* C37: delete_shift never deactivates the default shift nor a shift that has
\* employees assigned, and reports failure in both cases (for the default
\* shift with 'Cannot delete the default shift.'); it reports success only
\* when the shift has actually been deactivated.
C37_DeleteShiftGuarded ==
    [][/\ \A i \in DOMAIN shifts :
             (shifts[i].is_active /\ ~shifts'[i].is_active)
                => (~shifts[i].is_default /\ AssignedTo(i) = {})
       /\ \A r \in Reviewers :
             delete_shift_deactivate(r)
                => LET id == loc[r].shift_id
                   IN  /\ ret'.ok => ~shifts'[id].is_active
                       /\ (shifts[id].is_default \/ AssignedTo(id) # {}) => ~ret'.ok
                       /\ shifts[id].is_default
                             => ret'.msg = "Cannot delete the default shift."]_vars

\* C38: every stored leave request has days_count = (end - start).days + 1
\* and days_count >= 1, whichever create_leave_request entry point stored it,
\* so that an approval never increases an employee's credits.
C38_DaysCountPositive ==
    [][/\ \A id \in DOMAIN leave_requests' :
             /\ leave_requests'[id].days_count
                   = (leave_requests'[id].end_date - leave_requests'[id].start_date) + 1
             /\ leave_requests'[id].days_count >= 1
       /\ \A r \in Reviewers :
             approve_leave_deduct(r)
                => \A e \in Employees : leave_credits'[e] <= leave_credits[e]]_vars

====
